---------------------------- MODULE Spec2Model ----------------------------
(***************************************************************************)
(* The per-call session orchestrator of the scaffolding-inspection voice   *)
(* server (src/index.js, first variant in the file) together with the      *)
(* persistence (src/database.js, variant with the callers table), the      *)
(* equipment registry (src/equipment.js) and the validation rules.         *)
(*                                                                         *)
(* One call owns two sockets: `conn' (the telephony media socket) and      *)
(* `ai' (the socket to the speech backend).  Every handler of the source   *)
(* is one action.  The backend message handler is an async function: the   *)
(* part before its `await' is one action (Dispatch...), the part after it  *)
(* another (Resume...), with the suspended invocation kept in `pending'.   *)
(* `toAI' and `toCaller' record the frames written to an open socket;      *)
(* `rxMedia', `rxDelta' and `terminationState' are history variables.      *)
(***************************************************************************)
EXTENDS Integers, Sequences, FiniteSets, TLC

(***************************************************************************)
(* Bounds of the model (not program constants).                            *)
(***************************************************************************)
MaxToolCalls == 3
MaxMedia == 2
MaxDelta == 2
MaxStart == 1
MaxSpeech == 1

(***************************************************************************)
(* Program constants.                                                      *)
(***************************************************************************)
MESSAGE_SEQUENCE_DELAY_MS == 50
GREETING_DELAY_OFFSET_MS == 100
GREETING_RETRY_DELAY_MS == 100
HANGUP_DELAY_MS == 3000

(***************************************************************************)
(* JavaScript values.  A string is a sequence of one-character strings.    *)
(***************************************************************************)
Str(s) == [t |-> "string", v |-> s]
Undefined == [t |-> "undefined", v |-> <<>>]
Null == [t |-> "null", v |-> <<>>]
SomeNumber == [t |-> "number", v |-> <<"7">>]
SomeObject == [t |-> "object", v |-> <<>>]

\* JavaScript truthiness, as used by `!x' and `x || y'.
Truthy(x) ==
  \/ x.t = "object"
  \/ x.t = "number"
  \/ x.t = "string" /\ x.v # <<>>

IsWhitespace(ch) == ch = " "

RECURSIVE TrimStart(_)
TrimStart(s) ==
  IF s = <<>> THEN <<>>
  ELSE IF IsWhitespace(Head(s)) THEN TrimStart(Tail(s))
  ELSE s

RECURSIVE TrimEnd(_)
TrimEnd(s) ==
  IF s = <<>> THEN <<>>
  ELSE IF IsWhitespace(s[Len(s)]) THEN TrimEnd(SubSeq(s, 1, Len(s) - 1))
  ELSE s

\* String.prototype.trim
Trim(s) == TrimEnd(TrimStart(s))

UpperChar(ch) ==
  CASE ch = "s" -> "S"
    [] ch = "c" -> "C"
    [] ch = "a" -> "A"
    [] ch = "f" -> "F"
    [] OTHER -> ch

\* String.prototype.toUpperCase
ToUpperCase(s) == [i \in 1..Len(s) |-> UpperChar(s[i])]

(***************************************************************************)
(* src/equipment.js                                                        *)
(***************************************************************************)
ScaffId(d1, d2) == <<"S", "C", "A", "F", "F", "-", "0", d1, d2>>

EQUIPMENT_REGISTRY ==
  << ScaffId("0", "1"), ScaffId("0", "2"), ScaffId("0", "3"),
     ScaffId("0", "4"), ScaffId("0", "5"), ScaffId("0", "6"),
     ScaffId("0", "7"), ScaffId("0", "8"), ScaffId("0", "9"),
     ScaffId("1", "0"), ScaffId("1", "1"), ScaffId("1", "2"),
     ScaffId("1", "3"), ScaffId("1", "4"), ScaffId("1", "5") >>

\* getEquipmentById(id): TRUE iff an entry is found.
getEquipmentById(id) ==
  LET normalizedId == ToUpperCase(Trim(id))
  IN \E i \in 1..Len(EQUIPMENT_REGISTRY) :
        ToUpperCase(EQUIPMENT_REGISTRY[i]) = normalizedId

\* The `location' of each entry, in the order of the registry.
LOCATIONS ==
  << <<"W", "a", "r", "e", "h", "o", "u", "s", "e", " ", "A", " ", "-", " ", "B", "a", "y", " ", "3">>,
     <<"W", "a", "r", "e", "h", "o", "u", "s", "e", " ", "A", " ", "-", " ", "B", "a", "y", " ", "5">>,
     <<"B", "u", "i", "l", "d", "i", "n", "g", " ", "B", " ", "-", " ", "N", "o", "r", "t", "h", " ", "W", "a", "l", "l">>,
     <<"W", "a", "r", "e", "h", "o", "u", "s", "e", " ", "C", " ", "-", " ", "L", "o", "a", "d", "i", "n", "g", " ", "D", "o", "c", "k">>,
     <<"B", "u", "i", "l", "d", "i", "n", "g", " ", "D", " ", "-", " ", "E", "a", "s", "t", " ", "F", "a", "c", "a", "d", "e">>,
     <<"M", "a", "n", "u", "f", "a", "c", "t", "u", "r", "i", "n", "g", " ", "F", "l", "o", "o", "r", " ", "1">>,
     <<"W", "a", "r", "e", "h", "o", "u", "s", "e", " ", "A", " ", "-", " ", "B", "a", "y", " ", "1">>,
     <<"B", "u", "i", "l", "d", "i", "n", "g", " ", "E", " ", "-", " ", "M", "a", "i", "n", " ", "H", "a", "l", "l">>,
     <<"W", "a", "r", "e", "h", "o", "u", "s", "e", " ", "B", " ", "-", " ", "S", "t", "o", "r", "a", "g", "e", " ", "A", "r", "e", "a">>,
     <<"B", "u", "i", "l", "d", "i", "n", "g", " ", "C", " ", "-", " ", "W", "o", "r", "k", "s", "h", "o", "p">>,
     <<"B", "u", "i", "l", "d", "i", "n", "g", " ", "F", " ", "-", " ", "E", "x", "t", "e", "r", "i", "o", "r">>,
     <<"W", "a", "r", "e", "h", "o", "u", "s", "e", " ", "D", " ", "-", " ", "R", "e", "c", "e", "i", "v", "i", "n", "g">>,
     <<"M", "a", "n", "u", "f", "a", "c", "t", "u", "r", "i", "n", "g", " ", "F", "l", "o", "o", "r", " ", "2">>,
     <<"B", "u", "i", "l", "d", "i", "n", "g", " ", "G", " ", "-", " ", "M", "a", "i", "n", "t", "e", "n", "a", "n", "c", "e", " ", "S", "h", "o", "p">>,
     <<"B", "u", "i", "l", "d", "i", "n", "g", " ", "H", " ", "-", " ", "S", "o", "u", "t", "h", " ", "F", "a", "c", "a", "d", "e">> >>

LowerChar(ch) ==
  CASE ch = "A" -> "a"
    [] ch = "B" -> "b"
    [] ch = "C" -> "c"
    [] ch = "D" -> "d"
    [] ch = "E" -> "e"
    [] ch = "F" -> "f"
    [] ch = "G" -> "g"
    [] ch = "H" -> "h"
    [] ch = "L" -> "l"
    [] ch = "M" -> "m"
    [] ch = "N" -> "n"
    [] ch = "R" -> "r"
    [] ch = "S" -> "s"
    [] ch = "W" -> "w"
    [] OTHER -> ch

\* String.prototype.toLowerCase
ToLowerCase(s) == [i \in 1..Len(s) |-> LowerChar(s[i])]

\* String.prototype.includes
Includes(s, query) ==
  \E k \in 0..(Len(s) - Len(query)) : SubSeq(s, k + 1, k + Len(query)) = query

\* searchEquipmentByLocation(locationQuery): the indices of the entries found.
searchEquipmentByLocation(locationQuery) ==
  LET query == ToLowerCase(locationQuery)
  IN { i \in 1..Len(LOCATIONS) : Includes(ToLowerCase(LOCATIONS[i]), query) }

(***************************************************************************)
(* validateInspectionData.  `threw' is the TypeError of calling .trim() on *)
(* a truthy value that is not a string.                                    *)
(***************************************************************************)
PASS == <<"P", "A", "S", "S">>
FAIL == <<"F", "A", "I", "L">>

RequiredErrors(x, name) ==
  IF ~Truthy(x) \/ Trim(x.v) = <<>> THEN <<name>> ELSE <<>>

EquipmentErrors(x) ==
  IF ~Truthy(x) \/ Trim(x.v) = <<>> THEN <<"equipment_id is required">>
  ELSE IF ~getEquipmentById(x.v) THEN <<"equipment_id not found in registry">>
  ELSE <<>>

ResultErrors(x) ==
  IF ~Truthy(x) THEN <<"inspection_result is required">>
  ELSE IF x # Str(PASS) /\ x # Str(FAIL)
    THEN <<"inspection_result must be exactly PASS or FAIL">>
  ELSE <<>>

TrimThrows(x) == Truthy(x) /\ x.t # "string"

validateInspectionData(data) ==
  IF \/ TrimThrows(data.equipment_id)
     \/ TrimThrows(data.inspector_name)
     \/ TrimThrows(data.location)
  THEN [threw |-> TRUE, valid |-> FALSE, errors |-> <<>>]
  ELSE LET errors ==
             EquipmentErrors(data.equipment_id)
             \o RequiredErrors(data.inspector_name, "inspector_name is required")
             \o RequiredErrors(data.location, "location is required")
             \o ResultErrors(data.inspection_result)
       IN [threw |-> FALSE, valid |-> Len(errors) = 0, errors |-> errors]

(***************************************************************************)
(* src/database.js.  `inspections' maps a stream_sid to its row, `callers' *)
(* a phone number to the stored caller_name.  NULL stands for JavaScript   *)
(* null in the string-valued variables streamSid and phoneNumber.          *)
(***************************************************************************)
NULL == "null"

\* undefined in the same variables: what a field that an event does not
\* have evaluates to.  Both are falsy; a statement does not bind undefined.
UNDEFINED == "undefined"

NewInspection(phone) ==
  [ phone_number |-> phone,
    equipment_id |-> Null,
    inspector_name |-> Null,
    location |-> Null,
    inspection_result |-> Null,
    comments |-> Null,
    status |-> "in_progress",
    completions |-> 0 ]

\* Mutant: INSERT OR REPLACE.
createInspection_Replaces(db, sid, phone) ==
  [x \in DOMAIN db \cup {sid} |-> IF x = sid THEN NewInspection(phone) ELSE db[x]]

\* INSERT OR IGNORE INTO inspections (stream_sid, phone_number)
createInspection(db, sid, phone) ==
  IF sid \in DOMAIN db THEN db ELSE db @@ (sid :> NewInspection(phone))

\* better-sqlite3 binds numbers, strings and null only.
Bindable(x) == x.t \in {"string", "number", "null"}

\* data.comments || null
CommentsOrNull(data) == IF Truthy(data.comments) THEN data.comments ELSE Null

\* The row fields an accepted payload is stored as.
StoredFields(data) ==
  [ equipment_id |-> data.equipment_id,
    inspector_name |-> data.inspector_name,
    location |-> data.location,
    inspection_result |-> data.inspection_result,
    comments |-> CommentsOrNull(data) ]

\* UPDATE inspections SET ... status = 'completed' WHERE stream_sid = ?
\* `ioError' is a failure of the database itself; the statement also throws
\* on a parameter it cannot bind.  A statement that throws changes nothing.
saveInspectionData(db, sid, data, ioError) ==
  IF ioError \/ ~Bindable(CommentsOrNull(data)) \/ sid = UNDEFINED
  THEN [threw |-> TRUE, db |-> db]
  ELSE IF sid \in DOMAIN db
  THEN [threw |-> FALSE,
        db |-> [db EXCEPT ![sid] =
                  [@ EXCEPT !.equipment_id = data.equipment_id,
                            !.inspector_name = data.inspector_name,
                            !.location = data.location,
                            !.inspection_result = data.inspection_result,
                            !.comments = CommentsOrNull(data),
                            !.status = "completed"]]]
  ELSE [threw |-> FALSE, db |-> db]

\* Mutant: the end of the call marks the record completed.
completeInspection_SetsStatus(db, sid) ==
  IF sid \in DOMAIN db
  THEN [db EXCEPT ![sid].completions = @ + 1, ![sid].status = "completed"]
  ELSE db

\* UPDATE inspections SET call_ended_at = ..., call_duration_seconds = ...
\* `completions' counts the times the statement has written the row.
completeInspection(db, sid) ==
  IF sid \in DOMAIN db THEN [db EXCEPT ![sid].completions = @ + 1] ELSE db

\* SELECT COUNT(*), SUM(CASE WHEN inspection_result = 'PASS' ...) ...
\* FROM inspections WHERE status = 'completed'
getInspectionStats(db) ==
  LET completed == { sid \in DOMAIN db : db[sid].status = "completed" }
  IN [ total |-> Cardinality(completed),
       passed |-> Cardinality({ sid \in completed :
                                  db[sid].inspection_result = Str(PASS) }),
       failed |-> Cardinality({ sid \in completed :
                                  db[sid].inspection_result = Str(FAIL) }) ]

NoCaller == [found |-> FALSE, caller_name |-> Null]

getCallerByPhoneNumber(cdb, phone) ==
  IF phone = NULL \/ phone \notin DOMAIN cdb THEN NoCaller
  ELSE [found |-> TRUE, caller_name |-> cdb[phone]]

\* Mutant: ON CONFLICT(phone_number) DO NOTHING.
saveCallerName_KeepsFirst(cdb, phone, name) ==
  IF phone = NULL \/ name = <<>> \/ phone \in DOMAIN cdb THEN cdb
  ELSE cdb @@ (phone :> Str(name))

\* INSERT INTO callers ... ON CONFLICT(phone_number) DO UPDATE SET caller_name
saveCallerName(cdb, phone, name) ==
  IF phone = NULL \/ name = <<>> THEN cdb
  ELSE IF phone \in DOMAIN cdb THEN [cdb EXCEPT ![phone] = Str(name)]
  ELSE cdb @@ (phone :> Str(name))

(***************************************************************************)
(* Tool names are sequences of tokens, "_" being the separator that        *)
(* callMCPTool splits at.                                                  *)
(***************************************************************************)
SAVE_CALLER_NAME == <<"save", "_", "caller", "_", "name">>
SEARCH_EQUIPMENT_BY_LOCATION ==
  <<"search", "_", "equipment", "_", "by", "_", "location">>
GET_EQUIPMENT_INFO == <<"get", "_", "equipment", "_", "info">>
SUBMIT_INSPECTION_DATA == <<"submit", "_", "inspection", "_", "data">>
END_CALL == <<"end", "_", "call">>

RECURSIVE IndexOfSep(_, _)
IndexOfSep(name, i) ==
  IF i > Len(name) THEN 0
  ELSE IF name[i] = "_" THEN i
  ELSE IndexOfSep(name, i + 1)

\* toolName.split('_')[0]
ServerNameOf(toolName) ==
  LET k == IndexOfSep(toolName, 1)
  IN IF k = 0 THEN toolName ELSE SubSeq(toolName, 1, k - 1)

\* toolName.split('_').slice(1).join('_')
ActualToolNameOf(toolName) ==
  LET k == IndexOfSep(toolName, 1)
  IN IF k = 0 THEN <<>> ELSE SubSeq(toolName, k + 1, Len(toolName))

(***************************************************************************)
(* Tool providers.  mcpServers is the list in process.env.MCP_SERVERS;     *)
(* `broken' are the servers of it that have no command configured or whose *)
(* connect rejects.  mcpClients holds the names initializeMCP registered;  *)
(* the Map is iterated in the order of registration, which is the order of *)
(* mcpServers.                                                             *)
(***************************************************************************)
\* Mutant: the first server that fails ends the initialization.
RECURSIVE initializeMCP_StopsAtFailure(_, _)
initializeMCP_StopsAtFailure(mcpServers, broken) ==
  IF mcpServers = <<>> \/ Head(mcpServers) \in broken THEN {}
  ELSE {Head(mcpServers)} \cup initializeMCP_StopsAtFailure(Tail(mcpServers), broken)

RECURSIVE initializeMCP(_, _)
initializeMCP(mcpServers, broken) ==
  IF mcpServers = <<>> THEN {}
  ELSE IF Head(mcpServers) \in broken THEN initializeMCP(Tail(mcpServers), broken)
  ELSE {Head(mcpServers)} \cup initializeMCP(Tail(mcpServers), broken)

\* The names client.listTools() returns, for the providers of the model.
ProviderTools(serverName) ==
  CASE serverName = <<"srv">> -> << <<"lookup">> >>
    [] serverName = <<"a">> -> << <<"b", "_", "c">>, <<"d">> >>
    [] serverName = <<"a", "_", "b">> -> << <<"c">> >>
    [] serverName = <<"end">> -> << <<"call">> >>
    [] OTHER -> <<>>

\* `${serverName}_${tool.name}`
Prefixed(serverName, toolName) == serverName \o <<"_">> \o toolName

PrefixedTools(serverName) ==
  [k \in 1..Len(ProviderTools(serverName)) |->
     Prefixed(serverName, ProviderTools(serverName)[k])]

LocalCatalog ==
  << GET_EQUIPMENT_INFO, SEARCH_EQUIPMENT_BY_LOCATION, SAVE_CALLER_NAME,
     SUBMIT_INSPECTION_DATA, END_CALL >>

\* Mutant: a provider whose listTools rejects ends the listing.
RECURSIVE ProviderCatalog_StopsAtFailure(_, _, _)
ProviderCatalog_StopsAtFailure(mcpServers, clients, failed) ==
  IF mcpServers = <<>> THEN <<>>
  ELSE IF Head(mcpServers) \notin clients
  THEN ProviderCatalog_StopsAtFailure(Tail(mcpServers), clients, failed)
  ELSE IF Head(mcpServers) \in failed THEN <<>>
  ELSE PrefixedTools(Head(mcpServers))
         \o ProviderCatalog_StopsAtFailure(Tail(mcpServers), clients, failed)

\* The loop over mcpClients.entries(); `failed' are the providers whose
\* listTools rejects.
RECURSIVE ProviderCatalog(_, _, _)
ProviderCatalog(mcpServers, clients, failed) ==
  IF mcpServers = <<>> THEN <<>>
  ELSE IF Head(mcpServers) \notin clients \/ Head(mcpServers) \in failed
  THEN ProviderCatalog(Tail(mcpServers), clients, failed)
  ELSE PrefixedTools(Head(mcpServers))
         \o ProviderCatalog(Tail(mcpServers), clients, failed)

\* getMCPTools: the names of allTools, in order.
getMCPTools(mcpServers, clients, failed) ==
  ProviderCatalog(mcpServers, clients, failed) \o LocalCatalog

(***************************************************************************)
(* callMCPTool(toolName, args, context), up to its first await.  The       *)
(* result names what the call returned (`result'), whether it threw        *)
(* (`threw', with `error' the message), whether it is waiting for a        *)
(* provider (`suspended'), and the two tables after the call.  `request'   *)
(* is what it handed to client.callTool: nothing, or one request.          *)
(***************************************************************************)
Returned(result, db, cdb) ==
  [threw |-> FALSE, suspended |-> FALSE, error |-> "", result |-> result,
   request |-> <<>>, db |-> db, cdb |-> cdb]

Threw(message, db, cdb) ==
  [threw |-> TRUE, suspended |-> FALSE, error |-> message,
   result |-> [success |-> FALSE], request |-> <<>>, db |-> db, cdb |-> cdb]

Suspended(db, cdb) ==
  [threw |-> FALSE, suspended |-> TRUE, error |-> "",
   result |-> [success |-> FALSE], request |-> <<>>, db |-> db, cdb |-> cdb]

saveCallerNameTool(args, context, db, cdb) ==
  IF context.phoneNumber = NULL
  THEN Returned([success |-> FALSE, error |-> "No phone number available"], db, cdb)
  ELSE IF TrimThrows(args.caller_name)
  THEN Threw("TypeError", db, cdb)
  ELSE IF ~Truthy(args.caller_name) \/ Trim(args.caller_name.v) = <<>>
  THEN Returned([success |-> FALSE, error |-> "Caller name is required"], db, cdb)
  ELSE Returned([success |-> TRUE, message |-> "Name saved successfully",
                 caller_name |-> Str(Trim(args.caller_name.v))],
                db, saveCallerName(cdb, context.phoneNumber, Trim(args.caller_name.v)))

getEquipmentInfoTool(args, db, cdb) ==
  IF args.equipment_id.t # "string"
  THEN Threw("TypeError", db, cdb)
  ELSE IF ~getEquipmentById(args.equipment_id.v)
  THEN Returned([success |-> FALSE, error |-> "Equipment not found"], db, cdb)
  ELSE Returned([success |-> TRUE, equipment |-> ToUpperCase(Trim(args.equipment_id.v))],
                db, cdb)

searchEquipmentByLocationTool(args, db, cdb) ==
  IF args.location.t # "string"
  THEN Threw("TypeError", db, cdb)
  ELSE LET results == searchEquipmentByLocation(args.location.v)
       IN IF results = {}
          THEN Returned([success |-> FALSE, message |-> "No equipment found"], db, cdb)
          ELSE Returned([success |-> TRUE, equipment |-> results,
                         count |-> Cardinality(results)], db, cdb)

LocalTools ==
  { GET_EQUIPMENT_INFO, SEARCH_EQUIPMENT_BY_LOCATION, SAVE_CALLER_NAME,
    SUBMIT_INSPECTION_DATA, END_CALL }

\* Mutant: the row is written before the payload is validated.
submitInspectionDataTool_SaveFirst(args, context, db, cdb, ioError) ==
  LET validation == validateInspectionData(args)
      saved == saveInspectionData(db, context.streamSid, args, ioError)
  IN IF validation.threw THEN Threw("TypeError", db, cdb)
     ELSE IF ~validation.valid
     THEN Returned([success |-> FALSE, error |-> "Validation failed",
                    details |-> validation.errors], saved.db, cdb)
     ELSE IF saved.threw
     THEN Returned([success |-> FALSE, error |-> "Database error"], db, cdb)
     ELSE Returned([success |-> TRUE,
                    message |-> "Inspection data successfully recorded",
                    data |-> args], saved.db, cdb)

submitInspectionDataTool(args, context, db, cdb, ioError) ==
  LET validation == validateInspectionData(args)
  IN IF validation.threw THEN Threw("TypeError", db, cdb)
     ELSE IF ~validation.valid
     THEN Returned([success |-> FALSE, error |-> "Validation failed",
                    details |-> validation.errors], db, cdb)
     ELSE LET saved == saveInspectionData(db, context.streamSid, args, ioError)
          IN IF saved.threw
             THEN Returned([success |-> FALSE, error |-> "Database error"], db, cdb)
             ELSE Returned([success |-> TRUE,
                            message |-> "Inspection data successfully recorded",
                            data |-> args], saved.db, cdb)

\* Mutant: the check of context.inspectionSubmitted is missing.
endCallTool_NoGate(args, context, db, cdb) ==
  Returned([success |-> TRUE, message |-> "Call will be ended",
            reason |-> IF Truthy(args.reason) THEN args.reason
                       ELSE Str(<<"unknown">>)], db, cdb)

endCallTool(args, context, db, cdb) ==
  IF ~context.inspectionSubmitted
  THEN Returned([success |-> FALSE,
                 error |-> "Cannot end call without submitting inspection data first",
                 message |-> "You must call submit_inspection_data before ending the call"],
                db, cdb)
  ELSE Returned([success |-> TRUE, message |-> "Call will be ended",
                 reason |-> IF Truthy(args.reason) THEN args.reason
                            ELSE Str(<<"unknown">>)], db, cdb)

\* Mutant: the call is forwarded without looking the provider up.
providerTool_Unchecked(toolName, args, clients, db, cdb) == Suspended(db, cdb)

\* client.callTool({ name: actualToolName, arguments: args })
CallToolRequest(serverName, actualToolName, args) ==
  [server |-> serverName, name |-> actualToolName, arguments |-> args]

providerTool(toolName, args, clients, db, cdb) ==
  IF ServerNameOf(toolName) \notin clients
  THEN Threw("MCP server not found", db, cdb)
  ELSE [Suspended(db, cdb) EXCEPT
          !.request = << CallToolRequest(ServerNameOf(toolName),
                                         ActualToolNameOf(toolName), args) >>]

callMCPTool(toolName, args, context, clients, db, cdb, ioError) ==
  IF toolName = SAVE_CALLER_NAME THEN saveCallerNameTool(args, context, db, cdb)
  ELSE IF toolName = GET_EQUIPMENT_INFO THEN getEquipmentInfoTool(args, db, cdb)
  ELSE IF toolName = SEARCH_EQUIPMENT_BY_LOCATION
    THEN searchEquipmentByLocationTool(args, db, cdb)
  ELSE IF toolName = SUBMIT_INSPECTION_DATA
    THEN submitInspectionDataTool(args, context, db, cdb, ioError)
  ELSE IF toolName = END_CALL THEN endCallTool(args, context, db, cdb)
  ELSE providerTool(toolName, args, clients, db, cdb)

(***************************************************************************)
(* State.  Everything but the two tables and mcpClients is per call: the   *)
(* closure variables of the /media-stream handler and the call's sockets.  *)
(***************************************************************************)
VARIABLES
  conn,                \* connection.readyState: "OPEN", "CLOSING", "CLOSED"
  ai,                  \* openAiWs.readyState: "CONNECTING", "OPEN", "CLOSING", "CLOSED"
  streamSid,
  phoneNumber,
  returningCaller,
  isAIResponding,
  inspectionSubmitted,
  inspectionData,
  timers,              \* pending setTimeout callbacks, in scheduling order
  pending,             \* backend-message handlers suspended at their await
  toAI,                \* frames written to the backend socket
  toCaller,            \* frames written to the media socket
  rxMedia,             \* history: caller media frames received, and whether
                       \* the backend socket was open and a handler waiting
  rxDelta,             \* history: non-empty backend audio deltas received
  terminationState,    \* history: "ACTIVE", "ENDING", "CLOSED"
  used,                \* history: number of input events consumed, per kind
  inspections,         \* table inspections
  callers,             \* table callers
  mcpClients,          \* names of the connected tool providers
  limit                \* the environment of the run: what each call is sent

callVars ==
  << conn, ai, streamSid, phoneNumber, returningCaller, isAIResponding,
     inspectionSubmitted, inspectionData, timers, pending, toAI, toCaller,
     rxMedia, rxDelta, terminationState, used >>

vars == << callVars, inspections, callers, mcpClients, limit >>

Calls == DOMAIN conn

(***************************************************************************)
(* Inputs.                                                                 *)
(***************************************************************************)
Sids == {"MZ1"}
KnownPhone == "+15550100"
NamelessPhone == "+15550111"
Phones == {KnownPhone, NamelessPhone, "+15550199"}
AudioPayloads == {"u1", "u2"}
DeltaPayloads == {"", "g1", "g2"}
MCP_SERVERS == << <<"srv">> >>

Jane == Str(<<"J", "a", "n", "e">>)
Bay3 == Str(<<"B", "a", "y", " ", "3">>)

Payload1 ==
  [ equipment_id |-> Str(ScaffId("0", "1")), inspector_name |-> Jane,
    location |-> Bay3, inspection_result |-> Str(PASS), comments |-> Undefined ]

Payload2 ==
  [ equipment_id |-> Str(<<" ", "s", "c", "a", "f", "f", "-", "0", "0", "2">>),
    inspector_name |-> Jane, location |-> Bay3,
    inspection_result |-> Str(FAIL), comments |-> Str(<<"r", "u", "s", "t">>) ]

\* Two validation errors: a blank name and a lower-case result.
PayloadInvalid ==
  [ equipment_id |-> Str(ScaffId("0", "1")), inspector_name |-> Str(<<" ">>),
    location |-> Bay3, inspection_result |-> Str(<<"p", "a", "s", "s">>),
    comments |-> Undefined ]

\* An equipment id that is not in the registry.
PayloadUnknownId ==
  [ equipment_id |-> Str(ScaffId("9", "9")), inspector_name |-> Jane,
    location |-> Bay3, inspection_result |-> Str(PASS), comments |-> Undefined ]

\* Valid fields, but comments is an object, which the statement cannot bind.
PayloadUnbindable ==
  [ equipment_id |-> Str(ScaffId("0", "1")), inspector_name |-> Jane,
    location |-> Bay3, inspection_result |-> Str(PASS), comments |-> SomeObject ]

\* equipment_id is a number: .trim() throws.
PayloadNumberId ==
  [ equipment_id |-> SomeNumber, inspector_name |-> Jane,
    location |-> Bay3, inspection_result |-> Str(PASS), comments |-> Undefined ]

\* The `arguments' string of a tool-call event: either text JSON.parse
\* rejects, or the text of the object `value'.
BadJson == [wellFormed |-> FALSE, value |-> [reason |-> Undefined]]
Json(value) == [wellFormed |-> TRUE, value |-> value]

\* Mutant: the arguments are used as they come, without a parse that can fail.
JSONparse_NeverFails(text) == [ok |-> TRUE, value |-> text.value]

\* JSON.parse
JSONparse(text) ==
  IF text.wellFormed THEN [ok |-> TRUE, value |-> text.value]
  ELSE [ok |-> FALSE, value |-> text.value]

ToolCall(name, value) == [name |-> name, arguments |-> Json(value)]

SubmitP1 == ToolCall(SUBMIT_INSPECTION_DATA, Payload1)
SubmitP2 == ToolCall(SUBMIT_INSPECTION_DATA, Payload2)
SubmitInvalid == ToolCall(SUBMIT_INSPECTION_DATA, PayloadInvalid)
SubmitUnknownId == ToolCall(SUBMIT_INSPECTION_DATA, PayloadUnknownId)
SubmitUnbindable == ToolCall(SUBMIT_INSPECTION_DATA, PayloadUnbindable)
SubmitNumberId == ToolCall(SUBMIT_INSPECTION_DATA, PayloadNumberId)
EndCall == ToolCall(END_CALL, [reason |-> Undefined])
EndCallBadJson == [name |-> END_CALL, arguments |-> BadJson]
SaveName == ToolCall(SAVE_CALLER_NAME, [caller_name |-> Jane])
GetInfo == ToolCall(GET_EQUIPMENT_INFO, [equipment_id |-> Str(ScaffId("0", "1"))])
SearchBay == ToolCall(SEARCH_EQUIPMENT_BY_LOCATION, [location |-> Bay3])
ProviderLookup == ToolCall(<<"srv", "_", "lookup">>, [q |-> Jane])
NoSuchTool == ToolCall(<<"nosuch", "_", "tool">>, [q |-> Jane])
Bob == Str(<<" ", "B", "o", "b", " ">>)
SaveBob == ToolCall(SAVE_CALLER_NAME, [caller_name |-> Bob])
SaveBlankName == ToolCall(SAVE_CALLER_NAME, [caller_name |-> Str(<<" ">>)])
SaveNoName == ToolCall(SAVE_CALLER_NAME, [caller_name |-> Undefined])
SaveNumberName == ToolCall(SAVE_CALLER_NAME, [caller_name |-> SomeNumber])
UnderscoredCall == ToolCall(<<"a", "_", "b", "_", "c">>, [q |-> Jane])

\* The tool-call events of a call that is about submitting and ending, and
\* those of a call that uses the other tools.
SubmissionEvents ==
  { SubmitP1, SubmitP2, SubmitInvalid, SubmitUnbindable, EndCall, EndCallBadJson }

OtherToolEvents ==
  { SubmitP1, SubmitUnknownId, SubmitNumberId, EndCall, SaveName, GetInfo,
    SearchBay, ProviderLookup, NoSuchTool }

\* The database itself fails only where the model lets it: on the save of
\* the first payload.
IoErrors(ev) == IF ev = SubmitP1 THEN BOOLEAN ELSE {FALSE}

(***************************************************************************)
(* The environment of a run: the providers initializeMCP connected, and    *)
(* what one call is sent: how many events of each kind, which tool-call    *)
(* events, and which phone parameters a start event carries.               *)
(***************************************************************************)
Traffic(servers, broken, tool, events, media, delta, speech, start, phones, session) ==
  [ servers |-> servers, broken |-> broken, tool |-> tool, events |-> events, media |-> media,
    delta |-> delta, speech |-> speech, start |-> start, phones |-> phones,
    session |-> session, malformed |-> 0 ]

\* Submitting and ending, every outcome of a submission.
SubmissionTraffic ==
  Traffic(<<>>, {}, MaxToolCalls - 1, SubmissionEvents, 0, 0, 0, MaxStart, {NULL}, 0)

\* The gate: submissions and termination requests in any order.
GateTraffic ==
  Traffic(<<>>, {}, MaxToolCalls, {SubmitP1, EndCall}, 0, 0, 0, MaxStart, {NULL}, 0)

\* The other tools, with a provider connected.
ToolTraffic ==
  Traffic(MCP_SERVERS, {}, MaxToolCalls - 1, OtherToolEvents, 0, 0, 0, MaxStart,
          {KnownPhone}, 0)

\* Negotiation and greeting, for every kind of caller.
GreetingTraffic ==
  Traffic(MCP_SERVERS, {}, 0, {}, 0, 0, 0, MaxStart, {NULL} \cup Phones, 1)

\* Audio in both directions, with the backend speaking.
RelayTraffic ==
  Traffic(<<>>, {}, 0, {}, MaxMedia, MaxDelta, MaxSpeech, MaxStart, {NULL}, 0)

\* A caller who talks over the backend during a submission and a hang-up.
MixedTraffic ==
  Traffic(<<>>, {}, MaxToolCalls - 1, {SubmitP1, EndCall}, MaxMedia - 1, 0, MaxSpeech,
          0, {NULL}, 0)

\* Startup and negotiation, for lists of configured servers of which any
\* may fail to initialize: three providers, one of them with a tool that
\* gets the name of a local tool, and a provider whose name is a prefix of
\* another's.
ServerLists ==
  { << <<"srv">>, <<"a">>, <<"end">> >>,
    << <<"a">>, <<"a", "_", "b">> >> }

Range(q) == { q[k] : k \in 1..Len(q) }

NegotiationTraffic(servers, broken) ==
  Traffic(servers, broken, 0, {}, 0, 0, 0, 0, {NULL}, 1)

NegotiationScenarios ==
  UNION { { NegotiationTraffic(servers, broken) : broken \in SUBSET Range(servers) } :
          servers \in ServerLists }

\* A provider whose configured name has an underscore: its tool is
\* advertised at negotiation and then called by the advertised name.
RoutingTraffic ==
  Traffic(<< <<"a", "_", "b">> >>, {}, 1, {UnderscoredCall}, 0, 0, 0, 0, {NULL}, 1)

\* Submissions of every combination of field values: absent, empty, blank,
\* good, padded and in another case, wrong, and not a string.
EquipmentIdInputs ==
  { Undefined, Str(<<>>), Str(<<" ">>), Str(ScaffId("0", "1")),
    Str(<<" ", "s", "c", "a", "f", "f", "-", "0", "0", "2">>),
    Str(ScaffId("9", "9")), SomeNumber }

InspectorNameInputs == { Undefined, Str(<<" ">>), Jane, SomeNumber }

LocationInputs == { Null, Str(<<>>), Bay3 }

InspectionResultInputs ==
  { Undefined, Str(PASS), Str(FAIL), Str(<<"p", "a", "s", "s">>), SomeNumber }

ValidationEvents ==
  { ToolCall(SUBMIT_INSPECTION_DATA,
             [ equipment_id |-> e, inspector_name |-> n, location |-> l,
               inspection_result |-> r, comments |-> Undefined ]) :
      e \in EquipmentIdInputs, n \in InspectorNameInputs, l \in LocationInputs,
      r \in InspectionResultInputs }

ValidationTraffic ==
  Traffic(<<>>, {}, MaxToolCalls - 2, ValidationEvents, 0, 0, 0, MaxStart, {NULL}, 0)

\* Callers who give their name: stored before, stored without a name, not
\* stored, and without a phone number; names good, padded, blank, absent
\* and not a string.
CallerNameEvents == { SaveName, SaveBob, SaveBlankName, SaveNoName, SaveNumberName }

CallerNameTraffic ==
  Traffic(<<>>, {}, MaxToolCalls - 1, CallerNameEvents, 0, 0, 0, MaxStart,
          {NULL} \cup Phones, 0)

\* A media socket that delivers a further start event, with any phone
\* parameter or none, before or after a submission.
RestartTraffic ==
  Traffic(<<>>, {}, MaxToolCalls - 2, {SubmitP1}, 0, 0, 0, MaxStart + 1,
          {NULL} \cup Phones, 0)

\* Audio in both directions and the backend speaking, while a provider
\* takes its time to answer a tool call.
ProviderRelayTraffic ==
  Traffic(MCP_SERVERS, {}, MaxToolCalls - 2, {ProviderLookup}, MaxMedia - 1,
          MaxDelta - 1, MaxSpeech, 0, {NULL}, 0)

\* A backend that is still speaking when the hang-up closes the media
\* socket.
HangUpRelayTraffic ==
  Traffic(<<>>, {}, MaxToolCalls - 1, {SubmitP1, EndCall}, 0, MaxDelta - 1, 0,
          MaxStart, {NULL}, 0)

\* A caller who keeps talking while the backend starts to speak again.
InterruptionTraffic ==
  Traffic(<<>>, {}, 0, {}, MaxMedia + 1, 0, MaxSpeech + 1, 0, {NULL}, 0)

\* Peers that also send what the handlers do not expect: text that is not
\* JSON, and events without their fields.
MaxMalformed == 2

MalformedTraffic ==
  [ Traffic(<<>>, {}, 0, {}, MaxMedia - 1, 0, MaxSpeech, MaxStart,
            {NULL, KnownPhone}, 0)
    EXCEPT !.malformed = MaxMalformed ]

Scenarios ==
  { SubmissionTraffic, GateTraffic, ToolTraffic, GreetingTraffic, RelayTraffic,
    MixedTraffic, RoutingTraffic, RestartTraffic, ValidationTraffic,
    CallerNameTraffic, ProviderRelayTraffic, MalformedTraffic,
    InterruptionTraffic, HangUpRelayTraffic }
    \cup NegotiationScenarios

(***************************************************************************)
(* Initial state: the state of the /media-stream handler when it returns,  *)
(* with the tables as initializeDatabase and earlier calls left them and   *)
(* mcpClients as initializeMCP left it.                                    *)
(***************************************************************************)
EmptyTable == [k \in {} |-> Null]

\* The callers table as earlier calls left it: a caller with a stored name
\* and a row whose caller_name is NULL.
InitialCallers == (KnownPhone :> Jane) @@ (NamelessPhone :> Null)

NoUse ==
  [ tool |-> 0, media |-> 0, delta |-> 0, start |-> 0, speech |-> 0, session |-> 0,
    malformed |-> 0 ]

InitCalls(C, S) ==
  /\ conn = [c \in C |-> "OPEN"]
  /\ ai = [c \in C |-> "CONNECTING"]
  /\ streamSid = [c \in C |-> NULL]
  /\ phoneNumber = [c \in C |-> NULL]
  /\ returningCaller = [c \in C |-> NoCaller]
  /\ isAIResponding = [c \in C |-> FALSE]
  /\ inspectionSubmitted = [c \in C |-> FALSE]
  /\ inspectionData = [c \in C |-> Null]
  /\ timers = [c \in C |-> <<>>]
  /\ pending = [c \in C |-> <<>>]
  /\ toAI = [c \in C |-> <<>>]
  /\ toCaller = [c \in C |-> <<>>]
  /\ rxMedia = [c \in C |-> <<>>]
  /\ rxDelta = [c \in C |-> <<>>]
  /\ terminationState = [c \in C |-> "ACTIVE"]
  /\ used = [c \in C |-> NoUse]
  /\ inspections = EmptyTable
  /\ callers = InitialCallers
  /\ limit \in S
  /\ mcpClients = initializeMCP(limit.servers, limit.broken)

\* The calls in progress: one /media-stream connection.
CallIds == {"call1"}

Init == InitCalls(CallIds, Scenarios)

\* Two /media-stream connections at once, in one process: the handler has
\* run twice, the tables and mcpClients are the module's.
TwoCallIds == {"call1", "call2"}

\* Two callers who submit and ask to hang up.
TwoCallGateTraffic ==
  Traffic(<<>>, {}, MaxToolCalls - 1, {SubmitP1, EndCall}, 0, 0, 0, 0, {NULL}, 0)

\* Two calls that start and send audio.
TwoCallStartTraffic ==
  Traffic(<<>>, {}, 0, {}, MaxMedia - 1, 0, 0, MaxStart, {KnownPhone}, 0)

\* Two calls with audio in both directions and the backend speaking.
TwoCallAudioTraffic ==
  Traffic(<<>>, {}, 0, {}, MaxMedia - 1, MaxDelta - 1, MaxSpeech, 0, {NULL}, 0)

\* Two calls that negotiate and use a provider's tool.
TwoCallProviderTraffic ==
  Traffic(MCP_SERVERS, {}, MaxToolCalls - 2, {ProviderLookup}, 0, 0, 0, 0, {NULL}, 1)

\* Two calls that are sent what the handlers do not expect.
TwoCallMalformedTraffic ==
  [ Traffic(<<>>, {}, 0, {}, 0, 0, MaxSpeech, 0, {NULL}, 0)
    EXCEPT !.malformed = MaxMalformed - 1 ]

TwoCallScenarios ==
  { TwoCallGateTraffic, TwoCallStartTraffic, TwoCallAudioTraffic,
    TwoCallProviderTraffic, TwoCallMalformedTraffic }

TwoCallInit == InitCalls(TwoCallIds, TwoCallScenarios)

\* A stream id names one media stream.
StreamSids(c) == IF c \in CallIds THEN Sids ELSE {"MZ2"}

(***************************************************************************)
(* Sockets, timers and the event loop.                                     *)
(***************************************************************************)
\* ws send(): a frame is written when the socket is OPEN and dropped
\* when it is CLOSING or CLOSED.
\* Mutant: a frame is written whatever the state of the socket.
Send_AnyState(state, log, msg) == Append(log, msg)

Send(state, log, msg) == IF state = "OPEN" THEN Append(log, msg) ELSE log

Timer(kind, delay) == [kind |-> kind, delay |-> delay]

\* A timer can run once every timer scheduled before it with a delay not
\* longer than its own has run.
CanFire(q, i) == \A j \in 1..(i - 1) : q[j].delay > q[i].delay

RemoveAt(q, i) == SubSeq(q, 1, i - 1) \o SubSeq(q, i + 1, Len(q))

\* A handler resumed from the microtask queue (its await was on a promise
\* that is already settled) runs before any timer or socket event of
\* another socket; one waiting for a provider does not.
MicrotaskPending(c) == \E i \in 1..Len(pending[c]) : ~pending[c][i].suspended

\* A handler of call c is waiting at its await for a provider to answer.
Waiting(c) == \E i \in 1..Len(pending[c]) : pending[c][i].suspended

\* Mutant: an await stops the event loop, nothing runs until the provider
\* has answered.
Idle_UntilProvidersAnswer == \A c \in Calls : pending[c] = <<>>

Idle == \A c \in Calls : ~MicrotaskPending(c)

\* A backend message can be delivered in the same tick as the one before
\* it on the same socket, so only the other calls' microtasks are done.
IdleButFor(c) == \A d \in Calls \ {c} : ~MicrotaskPending(d)

Receiving(state) == state \in {"OPEN", "CLOSING"}

FunctionCallOutput(call_id, output) ==
  [type |-> "conversation.item.create",
   item |-> [type |-> "function_call_output", call_id |-> call_id, output |-> output]]

ResponseCreate == [type |-> "response.create"]
ResponseCancel == [type |-> "response.cancel"]
InputAudioBufferClear == [type |-> "input_audio_buffer.clear"]
InputAudioBufferAppend(p) == [type |-> "input_audio_buffer.append", audio |-> p]
SessionUpdate(tools) == [type |-> "session.update", tools |-> tools]
MediaEvent(sid, p) == [event |-> "media", streamSid |-> sid, payload |-> p]
ClearEvent(sid) == [event |-> "clear", streamSid |-> sid]

(***************************************************************************)
(* openAiWs.on('open' / 'error' / 'close'): the handlers only log.         *)
(***************************************************************************)
AiOpen(c) ==
  /\ Idle
  /\ ai[c] = "CONNECTING"
  /\ ai' = [ai EXCEPT ![c] = "OPEN"]
  /\ UNCHANGED << conn, streamSid, phoneNumber, returningCaller, isAIResponding,
                  inspectionSubmitted, inspectionData, timers, pending, toAI,
                  toCaller, rxMedia, rxDelta, terminationState, used,
                  inspections, callers, mcpClients, limit >>

AiClose(c) ==
  /\ Idle
  /\ ai[c] # "CLOSED"
  /\ ai' = [ai EXCEPT ![c] = "CLOSED"]
  /\ UNCHANGED << conn, streamSid, phoneNumber, returningCaller, isAIResponding,
                  inspectionSubmitted, inspectionData, timers, pending, toAI,
                  toCaller, rxMedia, rxDelta, terminationState, used,
                  inspections, callers, mcpClients, limit >>

(***************************************************************************)
(* connection.on('close'): the caller hangs up, or the close the hang-up   *)
(* timer started completes.                                                *)
(***************************************************************************)
\* Mutant: the end of the call is recorded only when the backend socket
\* was still open.
ConnectionClose_CompletesIfBackendOpen(c) ==
  /\ Idle
  /\ conn[c] # "CLOSED"
  /\ conn' = [conn EXCEPT ![c] = "CLOSED"]
  /\ ai' = [ai EXCEPT ![c] = IF @ = "OPEN" THEN "CLOSING" ELSE @]
  /\ inspections' = IF streamSid[c] \notin {NULL, UNDEFINED} /\ ai[c] = "OPEN"
                    THEN completeInspection(inspections, streamSid[c])
                    ELSE inspections
  /\ terminationState' = [terminationState EXCEPT ![c] = "CLOSED"]
  /\ UNCHANGED << streamSid, phoneNumber, returningCaller, isAIResponding,
                  inspectionSubmitted, inspectionData, timers, pending, toAI,
                  toCaller, rxMedia, rxDelta, used, callers, mcpClients, limit >>

ConnectionClose(c) ==
  /\ Idle
  /\ conn[c] # "CLOSED"
  /\ conn' = [conn EXCEPT ![c] = "CLOSED"]
  /\ ai' = [ai EXCEPT ![c] = IF @ = "OPEN" THEN "CLOSING" ELSE @]
  /\ inspections' = IF streamSid[c] \notin {NULL, UNDEFINED}
                    THEN completeInspection(inspections, streamSid[c])
                    ELSE inspections
  /\ terminationState' = [terminationState EXCEPT ![c] = "CLOSED"]
  /\ UNCHANGED << streamSid, phoneNumber, returningCaller, isAIResponding,
                  inspectionSubmitted, inspectionData, timers, pending, toAI,
                  toCaller, rxMedia, rxDelta, used, callers, mcpClients, limit >>

(***************************************************************************)
(* connection.on('message'), case 'media'.                                 *)
(***************************************************************************)
Interrupts(c) == ai[c] = "OPEN" /\ isAIResponding[c]

\* Mutant: an interruption is not signalled to the backend.
MediaFrames_NoCancel(c, p) ==
  IF ai[c] # "OPEN" THEN <<>> ELSE <<InputAudioBufferAppend(p)>>

\* Mutant: the frame that interrupts is not forwarded.
MediaFrames_DropTrigger(c, p) ==
  IF ai[c] # "OPEN" THEN <<>>
  ELSE IF isAIResponding[c] THEN <<ResponseCancel>>
  ELSE <<InputAudioBufferAppend(p)>>

MediaFrames(c, p) ==
  IF ai[c] # "OPEN" THEN <<>>
  ELSE IF isAIResponding[c] THEN <<ResponseCancel, InputAudioBufferAppend(p)>>
  ELSE <<InputAudioBufferAppend(p)>>

\* Mutant: an interruption also discards the submission.
OnMedia_ResetsSubmission(c, p) ==
  /\ Idle
  /\ Receiving(conn[c])
  /\ used[c].media < limit.media
  /\ used' = [used EXCEPT ![c].media = @ + 1]
  /\ rxMedia' = [rxMedia EXCEPT ![c] = Append(@, [payload |-> p, open |-> ai[c] = "OPEN",
                                      waiting |-> Waiting(c)])]
  /\ toAI' = [toAI EXCEPT ![c] = @ \o MediaFrames(c, p)]
  /\ timers' = [timers EXCEPT ![c] =
                  IF Interrupts(c)
                  THEN Append(@, Timer("bufferClear", MESSAGE_SEQUENCE_DELAY_MS))
                  ELSE @]
  /\ isAIResponding' = [isAIResponding EXCEPT ![c] = IF Interrupts(c) THEN FALSE ELSE @]
  /\ inspectionSubmitted' = [inspectionSubmitted EXCEPT ![c] =
                               IF Interrupts(c) THEN FALSE ELSE @]
  /\ UNCHANGED << conn, ai, streamSid, phoneNumber, returningCaller,
                  inspectionData, pending, toCaller,
                  rxDelta, terminationState, inspections, callers, mcpClients, limit >>

\* Mutant: an interruption leaves the flag set.
OnMedia_KeepsSpeaking(c, p) ==
  /\ Idle
  /\ Receiving(conn[c])
  /\ used[c].media < limit.media
  /\ used' = [used EXCEPT ![c].media = @ + 1]
  /\ rxMedia' = [rxMedia EXCEPT ![c] = Append(@, [payload |-> p, open |-> ai[c] = "OPEN",
                                      waiting |-> Waiting(c)])]
  /\ toAI' = [toAI EXCEPT ![c] = @ \o MediaFrames(c, p)]
  /\ timers' = [timers EXCEPT ![c] =
                  IF Interrupts(c)
                  THEN Append(@, Timer("bufferClear", MESSAGE_SEQUENCE_DELAY_MS))
                  ELSE @]
  /\ UNCHANGED << conn, ai, streamSid, phoneNumber, returningCaller, isAIResponding,
                  inspectionSubmitted, inspectionData, pending, toCaller,
                  rxDelta, terminationState, inspections, callers, mcpClients, limit >>

OnMedia(c, p) ==
  /\ Idle
  /\ Receiving(conn[c])
  /\ used[c].media < limit.media
  /\ used' = [used EXCEPT ![c].media = @ + 1]
  /\ rxMedia' = [rxMedia EXCEPT ![c] = Append(@, [payload |-> p, open |-> ai[c] = "OPEN",
                                      waiting |-> Waiting(c)])]
  /\ toAI' = [toAI EXCEPT ![c] = @ \o MediaFrames(c, p)]
  /\ timers' = [timers EXCEPT ![c] =
                  IF Interrupts(c)
                  THEN Append(@, Timer("bufferClear", MESSAGE_SEQUENCE_DELAY_MS))
                  ELSE @]
  /\ isAIResponding' = [isAIResponding EXCEPT ![c] = IF Interrupts(c) THEN FALSE ELSE @]
  /\ UNCHANGED << conn, ai, streamSid, phoneNumber, returningCaller,
                  inspectionSubmitted, inspectionData, pending, toCaller,
                  rxDelta, terminationState, inspections, callers, mcpClients, limit >>

(***************************************************************************)
(* connection.on('message'), for a message that is not what the handler    *)
(* expects.  An exception leaves the handler through its catch block,      *)
(* which logs; what ran before the exception has happened.                 *)
(***************************************************************************)
\* Text that JSON.parse rejects, {event: 'media'} without `media', and
\* {event: 'media', media: {}} without `payload'.
MalformedMediaKinds == {"text", "media", "media.payload"}

\* `data.media.payload' throws when `media' is absent, after the
\* interruption has been handled; an absent `payload' is undefined, and the
\* frame is forwarded without audio.
MalformedMediaFrames(c, kind) ==
  IF kind = "text" \/ ai[c] # "OPEN" THEN <<>>
  ELSE IF kind = "media"
  THEN IF isAIResponding[c] THEN <<ResponseCancel>> ELSE <<>>
  ELSE MediaFrames(c, UNDEFINED)

OnMalformedMedia(c, kind) ==
  /\ Idle
  /\ Receiving(conn[c])
  /\ used[c].malformed < limit.malformed
  /\ used' = [used EXCEPT ![c].malformed = @ + 1]
  /\ toAI' = [toAI EXCEPT ![c] = @ \o MalformedMediaFrames(c, kind)]
  /\ timers' = [timers EXCEPT ![c] =
                  IF kind # "text" /\ Interrupts(c)
                  THEN Append(@, Timer("bufferClear", MESSAGE_SEQUENCE_DELAY_MS))
                  ELSE @]
  /\ isAIResponding' = [isAIResponding EXCEPT ![c] =
                          IF kind # "text" /\ Interrupts(c) THEN FALSE ELSE @]
  /\ rxMedia' = [rxMedia EXCEPT ![c] =
                   IF kind = "media.payload"
                   THEN Append(@, [payload |-> UNDEFINED, open |-> ai[c] = "OPEN",
                                   waiting |-> Waiting(c)])
                   ELSE @]
  /\ UNCHANGED << conn, ai, streamSid, phoneNumber, returningCaller,
                  inspectionSubmitted, inspectionData, pending, toCaller,
                  rxDelta, terminationState, inspections, callers, mcpClients, limit >>

\* {event: 'start'} without `start', and a `start' without `streamSid'.
MalformedStartKinds == {"start", "start.streamSid"}

\* `data.start.streamSid' throws when `start' is absent; an absent
\* `streamSid' is assigned as undefined, the phone parameter is taken, and
\* createInspection throws on the undefined parameter before the greeting
\* is scheduled.
OnMalformedStart(c, kind, phone) ==
  /\ Idle
  /\ Receiving(conn[c])
  /\ used[c].malformed < limit.malformed
  /\ used' = [used EXCEPT ![c].malformed = @ + 1]
  /\ kind = "start" => phone = NULL
  /\ streamSid' = [streamSid EXCEPT ![c] = IF kind = "start" THEN @ ELSE UNDEFINED]
  /\ phoneNumber' = [phoneNumber EXCEPT ![c] = IF phone # NULL THEN phone ELSE @]
  /\ returningCaller' = [returningCaller EXCEPT ![c] =
                           IF phone # NULL THEN getCallerByPhoneNumber(callers, phone)
                           ELSE @]
  /\ UNCHANGED << conn, ai, isAIResponding, inspectionSubmitted, inspectionData,
                  timers, pending, toAI, toCaller, rxMedia, rxDelta, terminationState,
                  inspections, callers, mcpClients, limit >>

(***************************************************************************)
(* connection.on('message'), case 'start'.  `phone' is                     *)
(* customParameters.phone, NULL when the parameter is absent.              *)
(***************************************************************************)
OnStart(c, sid, phone) ==
  /\ Idle
  /\ Receiving(conn[c])
  /\ used[c].start < limit.start
  /\ used' = [used EXCEPT ![c].start = @ + 1]
  /\ streamSid' = [streamSid EXCEPT ![c] = sid]
  /\ phoneNumber' = [phoneNumber EXCEPT ![c] = IF phone # NULL THEN phone ELSE @]
  /\ returningCaller' = [returningCaller EXCEPT ![c] =
                           IF phone # NULL THEN getCallerByPhoneNumber(callers, phone)
                           ELSE @]
  /\ inspections' = createInspection(inspections, sid, phoneNumber'[c])
  /\ timers' = [timers EXCEPT ![c] = Append(@, Timer("greeting", GREETING_DELAY_OFFSET_MS))]
  /\ UNCHANGED << conn, ai, isAIResponding, inspectionSubmitted, inspectionData,
                  pending, toAI, toCaller, rxMedia, rxDelta, terminationState,
                  callers, mcpClients, limit >>

(***************************************************************************)
(* openAiWs.on('message'): session.created.  The handler awaits            *)
(* sendSessionUpdate, which awaits getMCPTools, which awaits listTools of  *)
(* every connected provider; session.update is sent when it resumes.       *)
(***************************************************************************)
SessionInvocation ==
  [kind |-> "session", suspended |-> mcpClients # {}]

OnSessionCreated(c) ==
  /\ IdleButFor(c)
  /\ Receiving(ai[c])
  /\ used[c].session < limit.session
  /\ used' = [used EXCEPT ![c].session = @ + 1]
  /\ pending' = [pending EXCEPT ![c] = Append(@, SessionInvocation)]
  /\ UNCHANGED << conn, ai, streamSid, phoneNumber, returningCaller, isAIResponding,
                  inspectionSubmitted, inspectionData, timers, toAI, toCaller,
                  rxMedia, rxDelta, terminationState, inspections, callers,
                  mcpClients, limit >>

\* Invocation i can resume: a provider's reply can arrive at any time, the
\* microtasks run in the order they were queued.
CanResume(c, i) ==
  /\ i \in 1..Len(pending[c])
  /\ \/ pending[c][i].suspended /\ Idle
     \/ /\ ~pending[c][i].suspended
        /\ \A j \in 1..(i - 1) : pending[c][j].suspended

ResumeSessionUpdate(c, i, failed) ==
  /\ CanResume(c, i)
  /\ pending[c][i].kind = "session"
  /\ pending' = [pending EXCEPT ![c] = RemoveAt(@, i)]
  /\ pending[c][i].suspended \/ failed = {}
  /\ toAI' = [toAI EXCEPT ![c] =
                Send(ai[c], @, SessionUpdate(getMCPTools(limit.servers, mcpClients, failed)))]
  /\ UNCHANGED << conn, ai, streamSid, phoneNumber, returningCaller, isAIResponding,
                  inspectionSubmitted, inspectionData, timers, toCaller, rxMedia,
                  rxDelta, terminationState, used, inspections, callers,
                  mcpClients, limit >>

(***************************************************************************)
(* openAiWs.on('message'): response.function_call_arguments.done, up to    *)
(* `await callMCPTool(...)'.  Arguments that do not parse throw into the   *)
(* catch block, which sends the error result at once.                      *)
(***************************************************************************)
\* Mutant: the submission flag is one variable of the module, not of the
\* call.
Context_SharedFlag(c) ==
  [ inspectionSubmitted |-> \E d \in Calls : inspectionSubmitted[d],
    inspectionData |-> inspectionData[c],
    streamSid |-> streamSid[c],
    phoneNumber |-> phoneNumber[c] ]

Context(c) ==
  [ inspectionSubmitted |-> inspectionSubmitted[c],
    inspectionData |-> inspectionData[c],
    streamSid |-> streamSid[c],
    phoneNumber |-> phoneNumber[c] ]

\* Mutant: the result is correlated with the first call's token.
ToolInvocation_FirstId(call_id, name, parsedArgs, r) ==
  [ kind |-> "tool", call_id |-> 1, name |-> name, parsedArgs |-> parsedArgs,
    suspended |-> r.suspended, threw |-> r.threw, error |-> r.error,
    result |-> r.result, request |-> r.request ]

ToolInvocation(call_id, name, parsedArgs, r) ==
  [ kind |-> "tool", call_id |-> call_id, name |-> name, parsedArgs |-> parsedArgs,
    suspended |-> r.suspended, threw |-> r.threw, error |-> r.error,
    result |-> r.result, request |-> r.request ]

ErrorOutput(message) == [error |-> message]

DispatchToolCall(c, ev, ioError) ==
  /\ IdleButFor(c)
  /\ Receiving(ai[c])
  /\ used[c].tool < limit.tool
  /\ used' = [used EXCEPT ![c].tool = @ + 1]
  /\ LET call_id == used[c].tool + 1
         parsed == JSONparse(ev.arguments)
         r == callMCPTool(ev.name, parsed.value, Context(c), mcpClients,
                          inspections, callers, ioError)
     IN IF ~parsed.ok
        THEN /\ toAI' = [toAI EXCEPT ![c] =
                           Send(ai[c], @, FunctionCallOutput(call_id,
                                            ErrorOutput("Invalid JSON arguments")))]
             /\ UNCHANGED << pending, inspections, callers >>
        ELSE /\ pending' = [pending EXCEPT ![c] =
                              Append(@, ToolInvocation(call_id, ev.name, parsed.value, r))]
             /\ inspections' = r.db
             /\ callers' = r.cdb
             /\ UNCHANGED toAI
  /\ UNCHANGED << conn, ai, streamSid, phoneNumber, returningCaller, isAIResponding,
                  inspectionSubmitted, inspectionData, timers, toCaller, rxMedia,
                  rxDelta, terminationState, mcpClients, limit >>

(***************************************************************************)
(* ... and from the await on.  `reply' is the provider's answer to a       *)
(* suspended call: its raw result, or a rejection.                         *)
(***************************************************************************)
ProviderReplies ==
  { [threw |-> FALSE, error |-> "", result |-> [content |-> "raw"]],
    [threw |-> TRUE, error |-> "provider error", result |-> [success |-> FALSE]] }

IsSuccess(result) == "success" \in DOMAIN result /\ result.success

SubmissionAccepted(inv, out) ==
  ~out.threw /\ inv.name = SUBMIT_INSPECTION_DATA /\ IsSuccess(out.result)

EndCallAccepted(inv, out) ==
  ~out.threw /\ inv.name = END_CALL /\ IsSuccess(out.result)

\* Mutant: the flag follows the result of the last submission.
SubmittedAfter_FollowsResult(before, inv, out) ==
  IF ~out.threw /\ inv.name = SUBMIT_INSPECTION_DATA THEN IsSuccess(out.result)
  ELSE before

\* if (name === 'submit_inspection_data' && result.success) { ... }
SubmittedAfter(before, inv, out) ==
  IF SubmissionAccepted(inv, out) THEN TRUE ELSE before

DataAfter(before, inv, out) ==
  IF SubmissionAccepted(inv, out) THEN inv.parsedArgs ELSE before

\* Mutant: the hang-up does not wait for the farewell.
TimersAfterToolCall_HangUpAtOnce(inv, out) ==
  IF out.threw THEN <<>>
  ELSE IF EndCallAccepted(inv, out)
  THEN << Timer("hangup", 0),
          Timer("responseCreate", MESSAGE_SEQUENCE_DELAY_MS) >>
  ELSE << Timer("responseCreate", MESSAGE_SEQUENCE_DELAY_MS) >>

\* Mutant: the hang-up is scheduled for every end_call, accepted or not.
TimersAfterToolCall_AnyEndCall(inv, out) ==
  IF out.threw THEN <<>>
  ELSE IF inv.name = END_CALL
  THEN << Timer("responseCreate", MESSAGE_SEQUENCE_DELAY_MS),
          Timer("hangup", HANGUP_DELAY_MS) >>
  ELSE << Timer("responseCreate", MESSAGE_SEQUENCE_DELAY_MS) >>

TimersAfterToolCall(inv, out) ==
  IF out.threw THEN <<>>
  ELSE IF EndCallAccepted(inv, out)
  THEN << Timer("responseCreate", MESSAGE_SEQUENCE_DELAY_MS),
          Timer("hangup", HANGUP_DELAY_MS) >>
  ELSE << Timer("responseCreate", MESSAGE_SEQUENCE_DELAY_MS) >>

CompleteToolCall(c, i, out) ==
  /\ pending[c][i].kind = "tool"
  /\ LET inv == pending[c][i]
     IN /\ pending' = [pending EXCEPT ![c] = RemoveAt(@, i)]
        /\ inspectionSubmitted' = [inspectionSubmitted EXCEPT ![c] =
                                     SubmittedAfter(@, inv, out)]
        /\ inspectionData' = [inspectionData EXCEPT ![c] = DataAfter(@, inv, out)]
        /\ toAI' = [toAI EXCEPT ![c] =
                      Send(ai[c], @,
                           FunctionCallOutput(inv.call_id,
                             IF out.threw THEN ErrorOutput(out.error) ELSE out.result))]
        /\ timers' = [timers EXCEPT ![c] = @ \o TimersAfterToolCall(inv, out)]
        /\ terminationState' = [terminationState EXCEPT ![c] =
                                  IF EndCallAccepted(inv, out) /\ @ = "ACTIVE"
                                  THEN "ENDING" ELSE @]
  /\ UNCHANGED << conn, ai, streamSid, phoneNumber, returningCaller, isAIResponding,
                  toCaller, rxMedia, rxDelta, used, inspections, callers,
                  mcpClients, limit >>

\* A local tool: callMCPTool has returned (or thrown) before the await.
ResumeToolCall(c, i) ==
  /\ CanResume(c, i)
  /\ ~pending[c][i].suspended
  /\ CompleteToolCall(c, i, pending[c][i])

\* A provider's tool: client.callTool resolves or rejects.
ResumeProviderCall(c, i, reply) ==
  /\ CanResume(c, i)
  /\ pending[c][i].suspended
  /\ CompleteToolCall(c, i, reply)



(***************************************************************************)
(* openAiWs.on('message'), for text that JSON.parse rejects: the outer     *)
(* catch block logs.                                                       *)
(***************************************************************************)
OnMalformedBackendMessage(c) ==
  /\ IdleButFor(c)
  /\ Receiving(ai[c])
  /\ used[c].malformed < limit.malformed
  /\ used' = [used EXCEPT ![c].malformed = @ + 1]
  /\ UNCHANGED << conn, ai, streamSid, phoneNumber, returningCaller, isAIResponding,
                  inspectionSubmitted, inspectionData, timers, pending, toAI,
                  toCaller, rxMedia, rxDelta, terminationState, inspections,
                  callers, mcpClients, limit >>

(***************************************************************************)
(* openAiWs.on('message'): speaking state and audio forwarding.            *)
(***************************************************************************)
OnResponseAudioStart(c) ==
  /\ IdleButFor(c)
  /\ Receiving(ai[c])
  /\ used[c].speech < limit.speech
  /\ used' = [used EXCEPT ![c].speech = @ + 1]
  /\ isAIResponding' = [isAIResponding EXCEPT ![c] = TRUE]
  /\ UNCHANGED << conn, ai, streamSid, phoneNumber, returningCaller,
                  inspectionSubmitted, inspectionData, timers, pending, toAI,
                  toCaller, rxMedia, rxDelta, terminationState, inspections,
                  callers, mcpClients, limit >>

OnResponseAudioDone(c) ==
  /\ IdleButFor(c)
  /\ Receiving(ai[c])
  /\ isAIResponding[c]
  /\ isAIResponding' = [isAIResponding EXCEPT ![c] = FALSE]
  /\ UNCHANGED << conn, ai, streamSid, phoneNumber, returningCaller,
                  inspectionSubmitted, inspectionData, timers, pending, toAI,
                  toCaller, rxMedia, rxDelta, terminationState, used, inspections,
                  callers, mcpClients, limit >>

OnResponseAudioDelta(c, delta) ==
  /\ IdleButFor(c)
  /\ Receiving(ai[c])
  /\ used[c].delta < limit.delta
  /\ used' = [used EXCEPT ![c].delta = @ + 1]
  /\ rxDelta' = [rxDelta EXCEPT ![c] =
                   IF delta # ""
                   THEN Append(@, [payload |-> delta, open |-> conn[c] = "OPEN",
                                 waiting |-> Waiting(c)])
                   ELSE @]
  /\ toCaller' = [toCaller EXCEPT ![c] =
                    IF delta # "" THEN Send(conn[c], @, MediaEvent(streamSid[c], delta))
                    ELSE @]
  /\ UNCHANGED << conn, ai, streamSid, phoneNumber, returningCaller, isAIResponding,
                  inspectionSubmitted, inspectionData, timers, pending, toAI,
                  rxMedia, terminationState, inspections, callers, mcpClients, limit >>

(***************************************************************************)
(* The setTimeout callbacks.                                               *)
(***************************************************************************)
\* Mutant: any caller record makes a returning caller.
GreetingItem_AnyRecord(caller) ==
  [type |-> "conversation.item.create",
   item |-> [type |-> "message",
             text |-> IF caller.found
                      THEN [variant |-> "returning", name |-> caller.caller_name]
                      ELSE [variant |-> "new", name |-> Null]]]

GreetingItem(caller) ==
  [type |-> "conversation.item.create",
   item |-> [type |-> "message",
             text |-> IF caller.found /\ Truthy(caller.caller_name)
                      THEN [variant |-> "returning", name |-> caller.caller_name]
                      ELSE [variant |-> "new", name |-> Null]]]

\* sendGreeting
sendGreeting(c, rest) ==
  IF ai[c] = "OPEN"
  THEN /\ toAI' = [toAI EXCEPT ![c] = Append(@, GreetingItem(returningCaller[c]))]
       /\ timers' = [timers EXCEPT ![c] =
                       Append(rest, Timer("responseCreate", MESSAGE_SEQUENCE_DELAY_MS))]
       /\ UNCHANGED << conn, toCaller >>
  ELSE /\ timers' = [timers EXCEPT ![c] =
                       Append(rest, Timer("greeting", GREETING_RETRY_DELAY_MS))]
       /\ UNCHANGED << conn, toAI, toCaller >>

\* Mutant: the callback does not look at the state of the media socket.
hangUp_AnyState(c, rest) ==
  IF streamSid[c] \notin {NULL, UNDEFINED}
  THEN /\ toCaller' = [toCaller EXCEPT ![c] = Append(@, ClearEvent(streamSid[c]))]
       /\ conn' = [conn EXCEPT ![c] = IF @ = "CLOSED" THEN @ ELSE "CLOSING"]
       /\ timers' = [timers EXCEPT ![c] = rest]
       /\ UNCHANGED toAI
  ELSE /\ timers' = [timers EXCEPT ![c] = rest]
       /\ UNCHANGED << conn, toAI, toCaller >>

\* The hang-up callback of a successful end_call.
hangUp(c, rest) ==
  IF streamSid[c] \notin {NULL, UNDEFINED} /\ conn[c] = "OPEN"
  THEN /\ toCaller' = [toCaller EXCEPT ![c] = Append(@, ClearEvent(streamSid[c]))]
       /\ conn' = [conn EXCEPT ![c] = "CLOSING"]
       /\ timers' = [timers EXCEPT ![c] = rest]
       /\ UNCHANGED toAI
  ELSE /\ timers' = [timers EXCEPT ![c] = rest]
       /\ UNCHANGED << conn, toAI, toCaller >>

FireTimer(c, i) ==
  /\ Idle
  /\ i \in 1..Len(timers[c])
  /\ CanFire(timers[c], i)
  /\ LET kind == timers[c][i].kind
         rest == RemoveAt(timers[c], i)
     IN CASE kind = "responseCreate" ->
               /\ toAI' = [toAI EXCEPT ![c] = Send(ai[c], @, ResponseCreate)]
               /\ timers' = [timers EXCEPT ![c] = rest]
               /\ UNCHANGED << conn, toCaller >>
          [] kind = "bufferClear" ->
               /\ toAI' = [toAI EXCEPT ![c] = Send(ai[c], @, InputAudioBufferClear)]
               /\ timers' = [timers EXCEPT ![c] = rest]
               /\ UNCHANGED << conn, toCaller >>
          [] kind = "greeting" -> sendGreeting(c, rest)
          [] kind = "hangup" -> hangUp(c, rest)
  /\ UNCHANGED << ai, streamSid, phoneNumber, returningCaller, isAIResponding,
                  inspectionSubmitted, inspectionData, pending, rxMedia, rxDelta,
                  terminationState, used, inspections, callers, mcpClients, limit >>

(***************************************************************************)
(* The specification.                                                      *)
(***************************************************************************)
Next ==
  \/ \E c \in Calls : AiOpen(c)
  \/ \E c \in Calls : AiClose(c)
  \/ \E c \in Calls : ConnectionClose(c)
  \/ \E c \in Calls, p \in AudioPayloads : OnMedia(c, p)
  \/ \E c \in Calls : \E sid \in StreamSids(c), phone \in limit.phones :
        OnStart(c, sid, phone)
  \/ \E c \in Calls, kind \in MalformedMediaKinds : OnMalformedMedia(c, kind)
  \/ \E c \in Calls, kind \in MalformedStartKinds, phone \in limit.phones :
        OnMalformedStart(c, kind, phone)
  \/ \E c \in Calls : OnMalformedBackendMessage(c)
  \/ \E c \in Calls : OnSessionCreated(c)
  \/ \E c \in Calls, failed \in SUBSET mcpClients : \E i \in 1..Len(pending[c]) :
        ResumeSessionUpdate(c, i, failed)
  \/ \E c \in Calls, ev \in limit.events : \E ioError \in IoErrors(ev) :
        DispatchToolCall(c, ev, ioError)
  \/ \E c \in Calls : \E i \in 1..Len(pending[c]) : ResumeToolCall(c, i)
  \/ \E c \in Calls, reply \in ProviderReplies : \E i \in 1..Len(pending[c]) :
        ResumeProviderCall(c, i, reply)
  \/ \E c \in Calls : OnResponseAudioStart(c)
  \/ \E c \in Calls : OnResponseAudioDone(c)
  \/ \E c \in Calls, delta \in DeltaPayloads : OnResponseAudioDelta(c, delta)
  \/ \E c \in Calls : \E i \in 1..Len(timers[c]) : FireTimer(c, i)

Spec == Init /\ [][Next]_vars

\* The event loop runs what is runnable: a handler resumed from the
\* microtask queue, and a timer whose delay is over.  Nothing obliges the
\* peers to send or to close.
Runnable(c) ==
  \/ \E i \in 1..Len(pending[c]) : ResumeToolCall(c, i)
  \/ \E i \in 1..Len(pending[c]) :
        ~pending[c][i].suspended /\ ResumeSessionUpdate(c, i, {})

Due(c, kind) ==
  \E i \in 1..Len(timers[c]) : timers[c][i].kind = kind /\ FireTimer(c, i)

EventLoop ==
  \A c \in CallIds :
    /\ WF_vars(Runnable(c))
    /\ \A kind \in {"responseCreate", "bufferClear", "greeting", "hangup"} :
         WF_vars(Due(c, kind))

FairSpec == Spec /\ EventLoop

TwoCallSpec == TwoCallInit /\ [][Next]_vars

(***************************************************************************)
(* Vocabulary of the properties.                                           *)
(***************************************************************************)
Count(q, Test(_)) == Len(SelectSeq(q, Test))

PendingTimers(c, kind) == Count(timers[c], LAMBDA t : t.kind = kind)

IsOutput(m) ==
  m.type = "conversation.item.create" /\ m.item.type = "function_call_output"

HasError(m, message) ==
  /\ IsOutput(m)
  /\ "error" \in DOMAIN m.item.output
  /\ m.item.output.error = message

\* The result of an accepted submission carries the payload as `data', the
\* result of an accepted end_call the `reason'.
IsAcceptedSubmission(m) ==
  IsOutput(m) /\ IsSuccess(m.item.output) /\ "data" \in DOMAIN m.item.output

IsAcceptedEndCall(m) ==
  IsOutput(m) /\ IsSuccess(m.item.output) /\ "reason" \in DOMAIN m.item.output

EndCallRejection == "Cannot end call without submitting inspection data first"

IsRejectedEndCall(m) == HasError(m, EndCallRejection)

Sent(c, Test(_)) == \E k \in 1..Len(toAI[c]) : Test(toAI[c][k])

\* Test1 holds of a frame sent before a frame of which Test2 holds.
SentInOrder(c, Test1(_), Test2(_)) ==
  \E k \in 1..Len(toAI[c]) : \E l \in (k + 1)..Len(toAI[c]) :
     Test1(toAI[c][k]) /\ Test2(toAI[c][l])

\* This step is the part of the tool-call handler before its await: a new
\* invocation of tool `name' is suspended.
Dispatched(c, name) ==
  /\ Len(pending'[c]) = Len(pending[c]) + 1
  /\ pending'[c][Len(pending'[c])].kind = "tool"
  /\ pending'[c][Len(pending'[c])].name = name

NewInvocation(c) == pending'[c][Len(pending'[c])]

\* This step is the part after the await, of invocation i of a local tool.
Resumed(c, i, name) ==
  /\ i \in 1..Len(pending[c])
  /\ pending[c][i].kind = "tool"
  /\ pending[c][i].name = name
  /\ ResumeToolCall(c, i)

\* This step handles a caller media frame.
MediaReceived(c) == Len(rxMedia'[c]) = Len(rxMedia[c]) + 1

(***************************************************************************)
(* C1.  An end_call is accepted (its result is success, the hang-up is     *)
(* scheduled, termination_state leaves ACTIVE for ENDING) only if          *)
(* inspectionSubmitted is already true, however many attempts are made;    *)
(* and an end_call dispatched while inspectionSubmitted is true is always  *)
(* accepted.                                                               *)
(***************************************************************************)
C1_GateHolds ==
  \A c \in Calls :
    /\ terminationState[c] = "ENDING" => inspectionSubmitted[c]
    /\ PendingTimers(c, "hangup") > 0 => inspectionSubmitted[c]
    /\ Sent(c, IsAcceptedEndCall) => inspectionSubmitted[c]

C1_GateStep ==
  \A c \in Calls :
    /\ Dispatched(c, END_CALL) =>
         /\ ~NewInvocation(c).threw
         /\ IsSuccess(NewInvocation(c).result) <=> inspectionSubmitted[c]
    /\ terminationState[c] = "ACTIVE" /\ terminationState'[c] = "ENDING" =>
         inspectionSubmitted[c]
    /\ PendingTimers(c, "hangup")' > PendingTimers(c, "hangup") =>
         inspectionSubmitted[c]
    /\ \A i \in 1..Len(pending[c]) :
         Resumed(c, i, END_CALL) /\ IsSuccess(pending[c][i].result) =>
           /\ PendingTimers(c, "hangup")' = PendingTimers(c, "hangup") + 1
           /\ terminationState[c] = "ACTIVE" => terminationState'[c] = "ENDING"
           /\ ai[c] = "OPEN" => IsAcceptedEndCall(toAI'[c][Len(toAI'[c])])

C1_TerminationGate == []C1_GateHolds /\ [][C1_GateStep]_vars

\* An end_call is accepted after an earlier attempt was rejected.
C1_Witness ==
  \E c \in Calls :
    /\ SentInOrder(c, IsRejectedEndCall, IsAcceptedEndCall)
    /\ terminationState[c] = "ENDING"
    /\ PendingTimers(c, "hangup") = 1

(***************************************************************************)
(* C2.  An end_call dispatched while no submission has succeeded returns   *)
(* {success: false, error: "Cannot end call without submitting inspection  *)
(* data first"} and changes nothing: no hang-up timer, no clear to the     *)
(* caller, the media socket as it was, termination_state still ACTIVE.     *)
(***************************************************************************)
NoTermination(c) ==
  /\ PendingTimers(c, "hangup")' = PendingTimers(c, "hangup")
  /\ toCaller'[c] = toCaller[c]
  /\ conn'[c] = conn[c]
  /\ terminationState'[c] = terminationState[c]

C2_RejectionStep ==
  \A c \in Calls :
    /\ Dispatched(c, END_CALL) /\ ~inspectionSubmitted[c] =>
         /\ ~NewInvocation(c).threw
         /\ NewInvocation(c).result.success = FALSE
         /\ NewInvocation(c).result.error = EndCallRejection
         /\ NoTermination(c)
         /\ timers'[c] = timers[c]
    /\ \A i \in 1..Len(pending[c]) :
         Resumed(c, i, END_CALL) /\ ~IsSuccess(pending[c][i].result) =>
           /\ NoTermination(c)
           /\ ai[c] = "OPEN" =>
                toAI'[c] = Append(toAI[c],
                             FunctionCallOutput(pending[c][i].call_id,
                                                pending[c][i].result))

C2_EndCallRejected ==
  [](\A c \in Calls : terminationState[c] = "ACTIVE" /\ ~inspectionSubmitted[c]
        => PendingTimers(c, "hangup") = 0)
  /\ [][C2_RejectionStep]_vars

\* A rejection has been returned; the call is as it was.
C2_Witness ==
  \E c \in Calls :
    /\ Sent(c, IsRejectedEndCall)
    /\ ~inspectionSubmitted[c]
    /\ terminationState[c] = "ACTIVE"
    /\ conn[c] = "OPEN"
    /\ pending[c] = <<>>

(***************************************************************************)
(* C3.  submission_state is monotonic: once inspectionSubmitted is true it *)
(* stays true for the rest of the call, whatever event follows.            *)
(***************************************************************************)
C3_SubmittedIsMonotonic ==
  [][\A c \in Calls : inspectionSubmitted[c] => inspectionSubmitted'[c]]_vars

IsFailedSubmission(m) ==
  HasError(m, "Validation failed") \/ HasError(m, "Database error")

\* A submission failed after one had been accepted, and the flag is set.
C3_Witness ==
  \E c \in Calls :
    /\ SentInOrder(c, IsAcceptedSubmission, IsFailedSubmission)
    /\ inspectionSubmitted[c]

(***************************************************************************)
(* C4.  Submission overwrites: once two submissions with different         *)
(* payloads have been accepted on a call, inspectionSubmitted is true, and *)
(* inspectionData and the row of the call's stream id are the payload of   *)
(* the later one.                                                          *)
(***************************************************************************)
LastAccepted(c) ==
  LET q == SelectSeq(toAI[c], IsAcceptedSubmission)
  IN q[Len(q)].item.output.data

TwoAccepted(c) ==
  /\ \A i \in 1..Len(pending[c]) : pending[c][i].kind # "tool"
  /\ \E k \in 1..Len(toAI[c]) :
        /\ IsAcceptedSubmission(toAI[c][k])
        /\ toAI[c][k].item.output.data # LastAccepted(c)

Persisted(c, data) ==
  /\ streamSid[c] \in DOMAIN inspections
  /\ LET row == inspections[streamSid[c]]
     IN /\ row.equipment_id = data.equipment_id
        /\ row.inspector_name = data.inspector_name
        /\ row.location = data.location
        /\ row.inspection_result = data.inspection_result
        /\ row.comments = CommentsOrNull(data)

C4_SecondSubmissionOverwrites ==
  \A c \in Calls :
    TwoAccepted(c) =>
      /\ inspectionSubmitted[c]
      /\ inspectionData[c] = LastAccepted(c)
      /\ Persisted(c, LastAccepted(c))

(***************************************************************************)
(* C5.  A submission that fails (the payload does not validate, or the     *)
(* save throws) returns success: false, and inspectionSubmitted,           *)
(* inspectionData and the inspections table are what they were before it.  *)
(***************************************************************************)
FailsToSave(ev, ioError) ==
  ioError \/ ~Bindable(CommentsOrNull(ev.arguments.value))

Rejects(ev, ioError) ==
  /\ ev.name = SUBMIT_INSPECTION_DATA
  /\ ev.arguments.wellFormed
  /\ ~validateInspectionData(ev.arguments.value).threw
  /\ ~validateInspectionData(ev.arguments.value).valid \/ FailsToSave(ev, ioError)

SubmissionUntouched(c) ==
  /\ inspectionSubmitted'[c] = inspectionSubmitted[c]
  /\ inspectionData'[c] = inspectionData[c]
  /\ inspections' = inspections

C5_FailureStep ==
  \A c \in Calls :
    /\ \A ev \in limit.events : \A ioError \in BOOLEAN :
         DispatchToolCall(c, ev, ioError) /\ Rejects(ev, ioError) =>
           /\ Dispatched(c, SUBMIT_INSPECTION_DATA)
           /\ ~NewInvocation(c).threw
           /\ NewInvocation(c).result.success = FALSE
           /\ SubmissionUntouched(c)
    /\ Dispatched(c, SUBMIT_INSPECTION_DATA)
         /\ (NewInvocation(c).threw \/ ~IsSuccess(NewInvocation(c).result)) =>
           SubmissionUntouched(c)
    /\ \A i \in 1..Len(pending[c]) :
         /\ Resumed(c, i, SUBMIT_INSPECTION_DATA)
         /\ pending[c][i].threw \/ ~IsSuccess(pending[c][i].result)
         => /\ SubmissionUntouched(c)
            /\ ai[c] = "OPEN" => ~IsSuccess(toAI'[c][Len(toAI'[c])].item.output)

C5_FailedSubmissionChangesNothing == [][C5_FailureStep]_vars

\* A submission has failed on a call whose row exists: the row is as the
\* start event created it, the flag and the payload are unset.
C5_Witness ==
  \E c \in Calls :
    /\ Sent(c, IsFailedSubmission)
    /\ ~Sent(c, IsAcceptedSubmission)
    /\ pending[c] = <<>>
    /\ ~inspectionSubmitted[c]
    /\ streamSid[c] \in DOMAIN inspections
    /\ inspections[streamSid[c]].status = "in_progress"

(***************************************************************************)
(* C6.  After an accepted end_call, once the farewell window has elapsed   *)
(* (the hang-up timer has run) the media socket is no longer open, whether *)
(* or not a start event came before the tool calls.                        *)
(***************************************************************************)
C6_HangUpClosesMediaSocket ==
  \A c \in Calls :
    terminationState[c] = "ENDING" /\ PendingTimers(c, "hangup") = 0 =>
      conn[c] # "OPEN"

(***************************************************************************)
(* C7.  A caller media frame that arrives while isAIResponding is true and *)
(* the backend socket is open sends response.cancel, schedules             *)
(* input_audio_buffer.clear after the settle delay and sets isAIResponding *)
(* to false; the flag becomes true again only at a response.audio.start,   *)
(* and the clear is sent, or dropped with the socket, once the delay is    *)
(* over.                                                                   *)
(***************************************************************************)
IsCancel(m) == m.type = "response.cancel"
IsClear(m) == m.type = "input_audio_buffer.clear"
IsAppend(m) == m.type = "input_audio_buffer.append"

C7_ClearFollowsCancel ==
  \A c \in Calls :
    /\ \A k \in 0..Len(toAI[c]) :
         Count(SubSeq(toAI[c], 1, k), IsClear) <= Count(SubSeq(toAI[c], 1, k), IsCancel)
    /\ ai[c] = "OPEN" =>
         Count(toAI[c], IsCancel)
           = Count(toAI[c], IsClear) + PendingTimers(c, "bufferClear")

C7_InterruptionStep ==
  \A c \in Calls :
    /\ MediaReceived(c) /\ Interrupts(c) =>
         /\ Len(toAI'[c]) = Len(toAI[c]) + 2
         /\ toAI'[c][Len(toAI[c]) + 1] = ResponseCancel
         /\ IsAppend(toAI'[c][Len(toAI[c]) + 2])
         /\ timers'[c] = Append(timers[c], Timer("bufferClear", MESSAGE_SEQUENCE_DELAY_MS))
         /\ ~isAIResponding'[c]
    /\ MediaReceived(c) /\ ~Interrupts(c) =>
         /\ Count(toAI'[c], IsCancel) = Count(toAI[c], IsCancel)
         /\ timers'[c] = timers[c]
    /\ ~isAIResponding[c] /\ isAIResponding'[c] =>
         used'[c].speech = used[c].speech + 1

C7_ClearIsDue ==
  \A c \in CallIds : \A n \in 1..(MaxMedia + 1) :
    (c \in Calls /\ PendingTimers(c, "bufferClear") = n)
      ~> (PendingTimers(c, "bufferClear") < n)

C7_Interruption ==
  /\ []C7_ClearFollowsCancel
  /\ [][C7_InterruptionStep]_vars
  /\ C7_ClearIsDue

\* The backend was interrupted, the clear has followed the cancel, and the
\* backend has not started to speak again.
C7_Witness ==
  \E c \in Calls :
    /\ SentInOrder(c, IsCancel, IsClear)
    /\ ~isAIResponding[c]
    /\ used[c].speech = 1

(***************************************************************************)
(* C8.  Handling a caller media frame, with or without an interruption,    *)
(* leaves inspectionSubmitted, inspectionData, the termination state and   *)
(* the inspections table unchanged; isAIResponding can only be cleared.    *)
(***************************************************************************)
C8_MediaStep ==
  \A c \in Calls :
    MediaReceived(c) =>
      /\ inspectionSubmitted'[c] = inspectionSubmitted[c]
      /\ inspectionData'[c] = inspectionData[c]
      /\ terminationState'[c] = terminationState[c]
      /\ inspections' = inspections
      /\ PendingTimers(c, "hangup")' = PendingTimers(c, "hangup")
      /\ conn'[c] = conn[c]
      /\ toCaller'[c] = toCaller[c]
      /\ isAIResponding'[c] => isAIResponding[c]

C8_InterruptionKeepsSubmission == [][C8_MediaStep]_vars

\* An interruption after an accepted submission.
C8_Witness ==
  \E c \in Calls :
    /\ SentInOrder(c, IsAcceptedSubmission, IsCancel)
    /\ inspectionSubmitted[c]
    /\ inspectionData[c] = Payload1

(***************************************************************************)
(* C9.  Relay keeps content and order.  The payloads appended to the       *)
(* backend's input buffer are, in order, those of the caller media events  *)
(* received while the backend socket was open, an interrupting frame       *)
(* included.  The payloads of the media events sent to the caller are, in  *)
(* order, those of the non-empty response.audio.delta events received      *)
(* (C9_RelayOfAllDeltas), which holds of the ones received while the media *)
(* socket was open (C9_Relay).                                             *)
(***************************************************************************)
SeqMap(q, F(_)) == [k \in 1..Len(q) |-> F(q[k])]

PayloadOf(r) == r.payload

WhileOpen(received) == SelectSeq(received, LAMBDA r : r.open)

AppendedToBackend(c) ==
  SeqMap(SelectSeq(toAI[c], IsAppend), LAMBDA m : m.audio)

RelayedToCaller(c) ==
  SeqMap(SelectSeq(toCaller[c], LAMBDA m : m.event = "media"), PayloadOf)

C9_CallerToBackend ==
  \A c \in Calls : AppendedToBackend(c) = SeqMap(WhileOpen(rxMedia[c]), PayloadOf)

C9_Relay ==
  /\ C9_CallerToBackend
  /\ \A c \in Calls : RelayedToCaller(c) = SeqMap(WhileOpen(rxDelta[c]), PayloadOf)

C9_RelayOfAllDeltas ==
  /\ C9_CallerToBackend
  /\ \A c \in Calls : RelayedToCaller(c) = SeqMap(rxDelta[c], PayloadOf)

\* Two frames each way, one of the caller's interrupting the backend.
C9_Witness ==
  \E c \in Calls :
    /\ Len(AppendedToBackend(c)) = 2
    /\ AppendedToBackend(c)[1] # AppendedToBackend(c)[2]
    /\ Sent(c, IsCancel)
    /\ Len(RelayedToCaller(c)) = 2
    /\ RelayedToCaller(c)[1] # RelayedToCaller(c)[2]

(***************************************************************************)
(* C10.  A tool-call event whose arguments do not parse is answered with a *)
(* function_call_output of the same call_id carrying the parse error; the  *)
(* tool is not invoked, the call's context and the tables are unchanged,   *)
(* both sockets stay as they are and nothing is scheduled.                 *)
(***************************************************************************)
IsParseError(m, call_id) ==
  /\ HasError(m, "Invalid JSON arguments")
  /\ m.item.call_id = call_id
  /\ "success" \notin DOMAIN m.item.output

C10_ParseFailureStep ==
  \A c \in Calls : \A ev \in limit.events : \A ioError \in BOOLEAN :
    DispatchToolCall(c, ev, ioError) /\ ~ev.arguments.wellFormed =>
      /\ ai[c] = "OPEN" =>
           /\ Len(toAI'[c]) = Len(toAI[c]) + 1
           /\ IsParseError(toAI'[c][Len(toAI'[c])], used'[c].tool)
      /\ pending'[c] = pending[c]
      /\ Context(c)' = Context(c)
      /\ inspections' = inspections
      /\ callers' = callers
      /\ conn'[c] = conn[c]
      /\ ai'[c] = ai[c]
      /\ terminationState'[c] = terminationState[c]
      /\ timers'[c] = timers[c]

C10_UnparseableArguments == [][C10_ParseFailureStep]_vars

\* The error has been returned; the call goes on, both sockets open.
C10_Witness ==
  \E c \in Calls :
    /\ \E k \in 1..Len(toAI[c]) : IsParseError(toAI[c][k], k)
    /\ conn[c] = "OPEN"
    /\ ai[c] = "OPEN"
    /\ terminationState[c] = "ACTIVE"
    /\ pending[c] = <<>>

(***************************************************************************)
(* C11.  A tool call whose name is neither a local tool nor prefixed by a  *)
(* connected provider, or whose handler throws (a provider call that       *)
(* rejects included), is answered with a function_call_output of the same  *)
(* call_id carrying {error}; the sockets, inspectionSubmitted,             *)
(* inspectionData and the termination state are unchanged.                 *)
(***************************************************************************)
Unresolved(name) == name \notin LocalTools /\ ServerNameOf(name) \notin mcpClients

AnsweredWithError(c, i, message) ==
  /\ ai[c] = "OPEN" =>
       /\ toAI'[c] = Append(toAI[c],
                       FunctionCallOutput(pending[c][i].call_id, [error |-> message]))
  /\ ai[c] # "OPEN" => toAI'[c] = toAI[c]
  /\ conn'[c] = conn[c]
  /\ ai'[c] = ai[c]
  /\ inspectionSubmitted'[c] = inspectionSubmitted[c]
  /\ inspectionData'[c] = inspectionData[c]
  /\ terminationState'[c] = terminationState[c]
  /\ PendingTimers(c, "hangup")' = PendingTimers(c, "hangup")

C11_ToolErrorStep ==
  \A c \in Calls :
    /\ \A ev \in limit.events : \A ioError \in BOOLEAN :
         /\ DispatchToolCall(c, ev, ioError)
         /\ ev.arguments.wellFormed
         /\ Unresolved(ev.name)
         => /\ NewInvocation(c).threw
            /\ ~NewInvocation(c).suspended
            /\ NewInvocation(c).call_id = used'[c].tool
    /\ \A i \in 1..Len(pending[c]) :
         /\ ResumeToolCall(c, i) /\ pending[c][i].kind = "tool" /\ pending[c][i].threw
              => AnsweredWithError(c, i, pending[c][i].error)
         /\ \A reply \in ProviderReplies :
              ResumeProviderCall(c, i, reply) /\ reply.threw
                => AnsweredWithError(c, i, reply.error)

C11_ToolErrorsAreResults == [][C11_ToolErrorStep]_vars

\* An unresolved name and a rejected provider call have both been answered
\* with an error, and the call goes on.
C11_Witness ==
  \E c \in Calls :
    /\ Sent(c, LAMBDA m : HasError(m, "MCP server not found"))
    /\ Sent(c, LAMBDA m : HasError(m, "provider error"))
    /\ conn[c] = "OPEN"
    /\ ai[c] = "OPEN"
    /\ terminationState[c] = "ACTIVE"
    /\ pending[c] = <<>>

(***************************************************************************)
(* C12.  Every tool-call event handled while the backend socket is open is *)
(* answered with exactly one function_call_output, which carries the       *)
(* call_id of the event: no call_id is answered twice, none that was not   *)
(* dispatched, also while several calls are outstanding, and a call the    *)
(* event loop can resume is answered.                                      *)
(***************************************************************************)
Outputs(c) == SelectSeq(toAI[c], IsOutput)

OutstandingCalls(c) == { i \in 1..Len(pending[c]) : pending[c][i].kind = "tool" }

C12_OneOutputPerCall ==
  \A c \in Calls :
    /\ \A k, l \in 1..Len(Outputs(c)) :
         Outputs(c)[k].item.call_id = Outputs(c)[l].item.call_id => k = l
    /\ \A k \in 1..Len(Outputs(c)) :
         /\ Outputs(c)[k].item.call_id \in 1..used[c].tool
         /\ \A i \in OutstandingCalls(c) :
              pending[c][i].call_id # Outputs(c)[k].item.call_id
    /\ \A i, j \in OutstandingCalls(c) :
         pending[c][i].call_id = pending[c][j].call_id => i = j
    /\ ai[c] = "OPEN" =>
         Len(Outputs(c)) + Cardinality(OutstandingCalls(c)) = used[c].tool

C12_OutputStep ==
  \A c \in Calls : \A i \in 1..Len(pending[c]) :
    /\ pending[c][i].kind = "tool"
    /\ ai[c] = "OPEN"
    /\ Len(pending'[c]) < Len(pending[c])
    /\ pending'[c] = RemoveAt(pending[c], i)
    => /\ Len(toAI'[c]) = Len(toAI[c]) + 1
       /\ IsOutput(toAI'[c][Len(toAI'[c])])
       /\ toAI'[c][Len(toAI'[c])].item.call_id = pending[c][i].call_id

C12_LocalCallIsAnswered ==
  \A c \in CallIds : \A n \in 1..(MaxToolCalls + 1) :
    (\E i \in OutstandingCalls(c) :
        pending[c][i].call_id = n /\ ~pending[c][i].suspended)
    ~> (\A i \in OutstandingCalls(c) : pending[c][i].call_id # n)

C12_ExactlyOneOutput ==
  /\ []C12_OneOutputPerCall
  /\ [][C12_OutputStep]_vars
  /\ C12_LocalCallIsAnswered

\* Two calls were outstanding together: the second was answered first.
C12_Witness ==
  \E c \in Calls :
    /\ SentInOrder(c, LAMBDA m : IsOutput(m) /\ m.item.call_id = 2,
                      LAMBDA m : IsOutput(m) /\ m.item.call_id = 1)
    /\ ai[c] = "OPEN"
    /\ pending[c] = <<>>

(***************************************************************************)
(* C13.  A socket that closes before Ending takes the other one with it:   *)
(* once the media socket has closed the backend socket is not open, and    *)
(* once the backend socket has closed or failed the media socket is not    *)
(* open.                                                                   *)
(***************************************************************************)
C13_ClosureClosesTheOtherSocket ==
  \A c \in Calls :
    /\ conn[c] = "CLOSED" => ai[c] # "OPEN"
    /\ ai[c] = "CLOSED" /\ terminationState[c] # "ENDING" => conn[c] # "OPEN"

\* The half of it the code has: connection.on('close') closes a backend
\* socket that is open.
C13_MediaCloseStep ==
  \A c \in Calls :
    conn[c] # "CLOSED" /\ conn'[c] = "CLOSED" /\ ai[c] = "OPEN" => ai'[c] = "CLOSING"

C13_MediaCloseClosesBackend == [][C13_MediaCloseStep]_vars

(***************************************************************************)
(* C14.  When a call that received a start event is closed,                *)
(* completeInspection has run exactly once for its stream id, whichever    *)
(* socket closed first; it runs in the step that closes the media socket,  *)
(* and in no other.                                                        *)
(***************************************************************************)
Completions(sid) == IF sid \in DOMAIN inspections THEN inspections[sid].completions ELSE 0

C14_RecordedForEveryStartedCall ==
  \A c \in Calls : \A sid \in StreamSids(c) :
    used[c].start > 0 =>
      Completions(sid) = IF conn[c] = "CLOSED" THEN 1 ELSE 0

\* What holds of it: the end of the call is recorded once, when the media
\* socket closes, for the stream id the call has at that moment.
C14_CompletedOnce ==
  \A c \in Calls :
    streamSid[c] \notin {NULL, UNDEFINED} =>
      /\ streamSid[c] \in DOMAIN inspections
      /\ Completions(streamSid[c]) = IF conn[c] = "CLOSED" THEN 1 ELSE 0

C14_CompletionStep ==
  /\ \A c \in Calls : conn[c] = "CLOSED" => conn'[c] = "CLOSED"
  /\ \A sid \in Sids :
       Completions(sid)' # Completions(sid) =>
         \E c \in Calls :
           /\ streamSid[c] = sid
           /\ conn[c] # "CLOSED" /\ conn'[c] = "CLOSED"
           /\ Completions(sid)' = Completions(sid) + 1

C14_EndOfCallRecordedOnce == []C14_CompletedOnce /\ [][C14_CompletionStep]_vars

\* The orchestrator hung up and both sockets have closed.
C14_Witness ==
  \E c \in Calls :
    /\ streamSid[c] \notin {NULL, UNDEFINED}
    /\ \E k \in 1..Len(toCaller[c]) : toCaller[c][k].event = "clear"
    /\ conn[c] = "CLOSED"
    /\ ai[c] = "CLOSED"
    /\ Completions(streamSid[c]) = 1

(***************************************************************************)
(* C15.  The greeting is the returning-caller variant, naming the caller,  *)
(* if and only if the start event carried a phone number whose row in the  *)
(* callers table has a non-empty caller_name; with no phone parameter, an  *)
(* unknown number or a row without a name it is the new-caller variant.    *)
(***************************************************************************)
IsGreeting(m) == m.type = "conversation.item.create" /\ m.item.type = "message"

HasStoredName(phone) ==
  /\ phone \in DOMAIN InitialCallers
  /\ InitialCallers[phone].t = "string"
  /\ InitialCallers[phone].v # <<>>

ExpectedGreeting(phone) ==
  IF HasStoredName(phone)
  THEN [variant |-> "returning", name |-> InitialCallers[phone]]
  ELSE [variant |-> "new", name |-> Null]

\* Of a call that has received one start event, and no other without its
\* stream id.
C15_GreetingVariant ==
  \A c \in Calls :
    used[c].start = 1 /\ used[c].malformed = 0 =>
      \A k \in 1..Len(toAI[c]) :
        IsGreeting(toAI[c][k]) => toAI[c][k].item.text = ExpectedGreeting(phoneNumber[c])

C15_LookupStep ==
  \A c \in Calls : \A sid \in Sids : \A phone \in limit.phones :
    OnStart(c, sid, phone) /\ phone # NULL =>
      /\ phoneNumber'[c] = phone
      /\ returningCaller'[c].found = (phone \in DOMAIN callers)
      /\ returningCaller'[c].found => returningCaller'[c].caller_name = callers[phone]

C15_Greeting == []C15_GreetingVariant /\ [][C15_LookupStep]_vars

\* A returning caller has been greeted by name.
C15_Witness ==
  \E c \in Calls :
    /\ used[c].start = 1
    /\ phoneNumber[c] = KnownPhone
    /\ \E k \in 1..Len(toAI[c]) :
         /\ IsGreeting(toAI[c][k])
         /\ toAI[c][k].item.text = [variant |-> "returning", name |-> Jane]

\* A caller whose row has no name has been greeted as a new caller.
C15_WitnessNameless ==
  \E c \in Calls :
    /\ used[c].start = 1
    /\ phoneNumber[c] = NamelessPhone
    /\ \E k \in 1..Len(toAI[c]) :
         /\ IsGreeting(toAI[c][k])
         /\ toAI[c][k].item.text.variant = "new"

(***************************************************************************)
(* C16.  The catalog sent at negotiation is the local tools together with  *)
(* every tool of every connected provider under `<provider>_<tool>', and   *)
(* no name occurs in it twice.                                             *)
(***************************************************************************)
IsSessionUpdate(m) == m.type = "session.update"

ExternalNames(clients) == UNION { Range(PrefixedTools(p)) : p \in clients }

C16_CatalogIsExactAndDistinct ==
  \A c \in Calls : \A n \in 1..Len(toAI[c]) :
    IsSessionUpdate(toAI[c][n]) =>
      LET tools == toAI[c][n].tools
      IN /\ LocalTools \subseteq Range(tools)
         /\ Range(tools) \subseteq LocalTools \cup ExternalNames(mcpClients)
         /\ \A k, l \in 1..Len(tools) : tools[k] = tools[l] => k = l

\* What holds of it: the content.
C16_CatalogContent ==
  \A c \in Calls : \A n \in 1..Len(toAI[c]) :
    IsSessionUpdate(toAI[c][n]) =>
      /\ LocalTools \subseteq Range(toAI[c][n].tools)
      /\ Range(toAI[c][n].tools) \subseteq LocalTools \cup ExternalNames(mcpClients)

(***************************************************************************)
(* C17.  A call of an advertised name `<provider>_<tool>' is handed to the *)
(* provider that advertised it, under the tool's original name and with    *)
(* the call's arguments; the provider's raw result is the output, as it    *)
(* is; a name whose prefix is no connected provider gets an error result.  *)
(***************************************************************************)
C17_RoutingStep ==
  \A c \in Calls :
    /\ \A ev \in limit.events : \A ioError \in BOOLEAN :
         DispatchToolCall(c, ev, ioError) /\ ev.arguments.wellFormed =>
           /\ \A p \in mcpClients : \A t \in Range(ProviderTools(p)) :
                ev.name = Prefixed(p, t) =>
                  /\ NewInvocation(c).suspended
                  /\ NewInvocation(c).request =
                       << CallToolRequest(p, t, ev.arguments.value) >>
           /\ Unresolved(ev.name) => NewInvocation(c).threw
    /\ \A i \in 1..Len(pending[c]) : \A reply \in ProviderReplies :
         ResumeProviderCall(c, i, reply) /\ ~reply.threw /\ ai[c] = "OPEN" =>
           toAI'[c] = Append(toAI[c],
                             FunctionCallOutput(pending[c][i].call_id, reply.result))

C17_DispatchRoundTripsTheCatalog == [][C17_RoutingStep]_vars

\* What holds of it: a provider whose name has no underscore gets the calls
\* of its tools, and every raw result is passed on as it is.
C17_PlainRoutingStep ==
  \A c \in Calls :
    /\ \A ev \in limit.events : \A ioError \in BOOLEAN :
         DispatchToolCall(c, ev, ioError) /\ ev.arguments.wellFormed =>
           /\ \A p \in mcpClients : \A t \in Range(ProviderTools(p)) :
                ev.name = Prefixed(p, t) /\ IndexOfSep(p, 1) = 0
                                         /\ ev.name \notin LocalTools =>
                  /\ NewInvocation(c).suspended
                  /\ NewInvocation(c).request =
                       << CallToolRequest(p, t, ev.arguments.value) >>
           /\ Unresolved(ev.name) => NewInvocation(c).threw
    /\ \A i \in 1..Len(pending[c]) : \A reply \in ProviderReplies :
         ResumeProviderCall(c, i, reply) /\ ~reply.threw /\ ai[c] = "OPEN" =>
           toAI'[c] = Append(toAI[c],
                             FunctionCallOutput(pending[c][i].call_id, reply.result))

C17_PlainNamesRoundTrip == [][C17_PlainRoutingStep]_vars

(***************************************************************************)
(* C18.  A provider that fails is left out and nothing else is: every      *)
(* configured server that initializes is registered whichever others       *)
(* failed, and a catalog built while some providers fail to list their     *)
(* tools still holds the tools of every other provider and the local tools.*)
(***************************************************************************)
C18_Initialized == mcpClients = Range(limit.servers) \ limit.broken

C18_ListingStep ==
  \A c \in Calls : \A i \in 1..Len(pending[c]) : \A failed \in SUBSET mcpClients :
    ResumeSessionUpdate(c, i, failed) /\ ai[c] = "OPEN" =>
      LET update == toAI'[c][Len(toAI'[c])]
      IN /\ Len(toAI'[c]) = Len(toAI[c]) + 1
         /\ IsSessionUpdate(update)
         /\ LocalTools \subseteq Range(update.tools)
         /\ \A p \in mcpClients \ failed :
              Range(PrefixedTools(p)) \subseteq Range(update.tools)

C18_ProviderFailuresAreIsolated == []C18_Initialized /\ [][C18_ListingStep]_vars

\* One server failed to initialize, one provider failed to list its tools,
\* and the catalog sent has the tools of a third and the local tools.
C18_Witness ==
  \E c \in Calls : \E n \in 1..Len(toAI[c]) :
    /\ IsSessionUpdate(toAI[c][n])
    /\ limit.broken # {}
    /\ LocalTools \subseteq Range(toAI[c][n].tools)
    /\ \E p, q \in mcpClients :
         /\ Range(PrefixedTools(p)) \cap LocalTools = {}
         /\ Range(PrefixedTools(p)) \subseteq Range(toAI[c][n].tools)
         /\ Range(PrefixedTools(q)) \cap Range(toAI[c][n].tools) = {}

(***************************************************************************)
(* C19.  With two calls in progress, a step that handles an event of one   *)
(* call (start, media, tool call, backend event, timer, close) leaves      *)
(* every per-call variable of the other call as it was, and an end_call is *)
(* accepted on a call only after a submission succeeded on that same call. *)
(***************************************************************************)
CallState(c) ==
  << conn[c], ai[c], streamSid[c], phoneNumber[c], returningCaller[c],
     isAIResponding[c], inspectionSubmitted[c], inspectionData[c], timers[c],
     pending[c], toAI[c], toCaller[c], rxMedia[c], rxDelta[c],
     terminationState[c], used[c] >>

\* This step handles an event of call c.
EventOf(c) ==
  \/ AiOpen(c)
  \/ AiClose(c)
  \/ ConnectionClose(c)
  \/ \E p \in AudioPayloads : OnMedia(c, p)
  \/ \E sid \in StreamSids(c), phone \in limit.phones : OnStart(c, sid, phone)
  \/ OnSessionCreated(c)
  \/ \E failed \in SUBSET mcpClients : \E i \in 1..Len(pending[c]) :
        ResumeSessionUpdate(c, i, failed)
  \/ \E ev \in limit.events : \E ioError \in IoErrors(ev) :
        DispatchToolCall(c, ev, ioError)
  \/ \E i \in 1..Len(pending[c]) : ResumeToolCall(c, i)
  \/ \E reply \in ProviderReplies : \E i \in 1..Len(pending[c]) :
        ResumeProviderCall(c, i, reply)
  \/ OnResponseAudioStart(c)
  \/ OnResponseAudioDone(c)
  \/ \E delta \in DeltaPayloads : OnResponseAudioDelta(c, delta)
  \/ \E i \in 1..Len(timers[c]) : FireTimer(c, i)

C19_IsolationStep ==
  \A c \in Calls : EventOf(c) =>
    \A d \in Calls \ {c} : CallState(d)' = CallState(d)

C19_OwnSubmission ==
  \A c \in Calls :
    terminationState[c] = "ENDING" \/ Sent(c, IsAcceptedEndCall)
      => inspectionSubmitted[c]

C19_CallsAreIsolated == []C19_OwnSubmission /\ [][C19_IsolationStep]_vars

\* A submission has succeeded on one call, and the other call's end_call
\* has been rejected since: it has submitted nothing and goes on.
C19_Witness ==
  \E a, b \in Calls :
    /\ a # b
    /\ SentInOrder(a, IsAcceptedSubmission, IsAcceptedEndCall)
    /\ inspectionSubmitted[a]
    /\ Sent(b, IsRejectedEndCall)
    /\ ~inspectionSubmitted[b]
    /\ terminationState[b] = "ACTIVE"
    /\ ai[b] = "OPEN"

(***************************************************************************)
(* C20.  Once a call's phone number is set, no step of the call changes it *)
(* or the returning-caller record looked up with it, a further start event *)
(* with another phone parameter, or with none, included.                   *)
(***************************************************************************)
C20_IdentityStep ==
  \A c \in Calls :
    phoneNumber[c] # NULL =>
      /\ phoneNumber'[c] = phoneNumber[c]
      /\ returningCaller'[c] = returningCaller[c]

C20_CallerIdentityIsImmutable == [][C20_IdentityStep]_vars

\* What holds of it: a start event without a phone parameter, and every
\* event that is not a start event, leave both as they are.
C20_OtherEventsStep ==
  \A c \in Calls :
    phoneNumber[c] # NULL
      /\ ~(\E sid \in Sids, phone \in Phones \ {phoneNumber[c]} : OnStart(c, sid, phone)) =>
      /\ phoneNumber'[c] = phoneNumber[c]
      /\ returningCaller'[c] = returningCaller[c]

C20_OtherEventsKeepTheIdentity == [][C20_OtherEventsStep]_vars

(***************************************************************************)
(* C21.  validateInspectionData returns valid exactly when equipment_id is *)
(* a non-blank id of the registry (trimmed, in any case), inspector_name   *)
(* and location are non-blank and inspection_result is PASS or FAIL;       *)
(* otherwise it returns valid = false with one error for every field that  *)
(* fails.  It is observed where it is called: a submission is refused with *)
(* `Validation failed' and the errors, or goes on to be saved.             *)
(***************************************************************************)
NonBlank(x) == x.t = "string" /\ Trim(x.v) # <<>>

InRegistry(x) ==
  /\ NonBlank(x)
  /\ \E i \in 1..Len(EQUIPMENT_REGISTRY) :
       ToUpperCase(EQUIPMENT_REGISTRY[i]) = ToUpperCase(Trim(x.v))

IsPassOrFail(x) == x = Str(PASS) \/ x = Str(FAIL)

FailingFields(data) ==
  (IF InRegistry(data.equipment_id) THEN {} ELSE {"equipment_id"})
  \cup (IF NonBlank(data.inspector_name) THEN {} ELSE {"inspector_name"})
  \cup (IF NonBlank(data.location) THEN {} ELSE {"location"})
  \cup (IF IsPassOrFail(data.inspection_result) THEN {} ELSE {"inspection_result"})

RefusedByValidation(inv) ==
  /\ ~inv.threw
  /\ "details" \in DOMAIN inv.result
  /\ ~inv.result.success
  /\ inv.result.error = "Validation failed"

ValidatedAs(inv, data) ==
  IF FailingFields(data) = {}
  THEN ~inv.threw /\ "details" \notin DOMAIN inv.result
  ELSE /\ RefusedByValidation(inv)
       /\ Len(inv.result.details) = Cardinality(FailingFields(data))

C21_ValidationStep ==
  \A c \in Calls : \A ev \in limit.events : \A ioError \in BOOLEAN :
    /\ DispatchToolCall(c, ev, ioError)
    /\ ev.name = SUBMIT_INSPECTION_DATA
    /\ ev.arguments.wellFormed
    => ValidatedAs(NewInvocation(c), ev.arguments.value)

C21_ValidationIsExact == [][C21_ValidationStep]_vars

\* What holds of it: the same for fields that are strings or absent.
IsText(x) == x.t \in {"string", "undefined", "null"}

C21_TextStep ==
  \A c \in Calls : \A ev \in limit.events : \A ioError \in BOOLEAN :
    /\ DispatchToolCall(c, ev, ioError)
    /\ ev.name = SUBMIT_INSPECTION_DATA
    /\ ev.arguments.wellFormed
    /\ IsText(ev.arguments.value.equipment_id)
    /\ IsText(ev.arguments.value.inspector_name)
    /\ IsText(ev.arguments.value.location)
    => ValidatedAs(NewInvocation(c), ev.arguments.value)

C21_TextFieldsAreValidatedExactly == [][C21_TextStep]_vars

(***************************************************************************)
(* C22.  createInspection with a stream_sid that already has a record adds *)
(* no record and leaves the existing one as it is: a further start event   *)
(* of a stream changes nothing in the inspections table, and a first one   *)
(* adds the one record of the stream.                                      *)
(***************************************************************************)
C22_CreateStep ==
  \A c \in Calls : \A sid \in StreamSids(c) : \A phone \in limit.phones :
    OnStart(c, sid, phone) =>
      IF sid \in DOMAIN inspections
      THEN inspections' = inspections
      ELSE /\ DOMAIN inspections' = DOMAIN inspections \cup {sid}
           /\ \A x \in DOMAIN inspections : inspections'[x] = inspections[x]

C22_CreateInspectionIsIdempotent == [][C22_CreateStep]_vars

\* A stream has started twice, with another phone parameter the second
\* time, around a submission: its record still has the first phone number
\* and the submitted fields.
C22_Witness ==
  \E c \in Calls :
    /\ used[c].start = 2
    /\ streamSid[c] \in DOMAIN inspections
    /\ phoneNumber[c] # NULL
    /\ inspections[streamSid[c]].phone_number \notin {NULL, phoneNumber[c]}
    /\ inspections[streamSid[c]].status = "completed"

(***************************************************************************)
(* C23.  Saving a non-blank name for a call that has a phone number        *)
(* creates the caller's record or replaces its name, so that the lookup    *)
(* by that phone number returns the name saved last; saveCallerName with   *)
(* no phone or an empty name, and the save_caller_name tool for a call     *)
(* without a phone number or with a blank name, change no record; nothing  *)
(* else writes the callers table.                                          *)
(***************************************************************************)
SavesName(c, ev, ioError) ==
  /\ DispatchToolCall(c, ev, ioError)
  /\ ev.name = SAVE_CALLER_NAME
  /\ ev.arguments.wellFormed

C23_SaveStep ==
  \A c \in Calls : \A ev \in limit.events : \A ioError \in BOOLEAN :
    SavesName(c, ev, ioError) =>
      LET name == ev.arguments.value.caller_name
          phone == phoneNumber[c]
      IN IF phone = NULL \/ ~NonBlank(name)
         THEN /\ callers' = callers
              /\ NewInvocation(c).threw \/ ~NewInvocation(c).result.success
         ELSE /\ ~NewInvocation(c).threw
              /\ NewInvocation(c).result.success
              /\ DOMAIN callers' = DOMAIN callers \cup {phone}
              /\ getCallerByPhoneNumber(callers', phone) =
                   [found |-> TRUE, caller_name |-> Str(Trim(name.v))]
              /\ \A p \in DOMAIN callers \ {phone} : callers'[p] = callers[p]

C23_EmptyArguments ==
  /\ \A n \in {<<>>, <<"B", "o", "b">>} : saveCallerName(callers, NULL, n) = callers
  /\ \A p \in {NULL} \cup Phones : saveCallerName(callers, p, <<>>) = callers

C23_OtherSteps ==
  callers' # callers =>
    \E c \in Calls : \E ev \in limit.events : \E ioError \in BOOLEAN :
      SavesName(c, ev, ioError)

C23_SaveCallerName ==
  []C23_EmptyArguments /\ [][C23_SaveStep /\ C23_OtherSteps]_vars

\* A caller stored as Jane has saved another name, which the lookup now
\* returns, and a blank name was refused after that.
C23_Witness ==
  \E c \in Calls :
    /\ phoneNumber[c] = KnownPhone
    /\ getCallerByPhoneNumber(callers, KnownPhone).caller_name = Str(Trim(Bob.v))
    /\ SentInOrder(c, LAMBDA m : IsOutput(m) /\ IsSuccess(m.item.output),
                      LAMBDA m : HasError(m, "Caller name is required"))

\* A caller who was not stored has a record after saving a name.
C23_WitnessCreated ==
  \E p \in DOMAIN callers : p \notin DOMAIN InitialCallers

(***************************************************************************)
(* C24.  A record is `in_progress' with empty inspection fields from its   *)
(* creation until a submission is saved for it, and `completed' with the   *)
(* saved fields from then on; the end of the call writes neither status    *)
(* nor fields; getInspectionStats counts the completed records only.       *)
(***************************************************************************)
InspectionFields(row) ==
  << row.equipment_id, row.inspector_name, row.location, row.inspection_result,
     row.comments >>

EmptyFields(row) == InspectionFields(row) = << Null, Null, Null, Null, Null >>

C24_StatusFollowsData ==
  /\ \A sid \in DOMAIN inspections :
       /\ inspections[sid].status \in {"in_progress", "completed"}
       /\ inspections[sid].status = "completed" <=> ~EmptyFields(inspections[sid])
  /\ getInspectionStats(inspections).total =
       Cardinality({ sid \in DOMAIN inspections : ~EmptyFields(inspections[sid]) })
  /\ getInspectionStats(inspections).passed + getInspectionStats(inspections).failed
       = getInspectionStats(inspections).total

C24_RecordStep ==
  /\ \A sid \in DOMAIN inspections' \ DOMAIN inspections :
       /\ inspections'[sid].status = "in_progress"
       /\ EmptyFields(inspections'[sid])
  /\ \A c \in Calls : ConnectionClose(c) =>
       \A sid \in DOMAIN inspections :
         /\ inspections'[sid].status = inspections[sid].status
         /\ InspectionFields(inspections'[sid]) = InspectionFields(inspections[sid])
  /\ \A sid \in DOMAIN inspections :
       \/ /\ inspections'[sid].status = inspections[sid].status
          /\ InspectionFields(inspections'[sid]) = InspectionFields(inspections[sid])
       \/ \E c \in Calls : \E ev \in limit.events :
            /\ streamSid[c] = sid
            /\ DispatchToolCall(c, ev, FALSE)
            /\ ev.name = SUBMIT_INSPECTION_DATA
            /\ IsSuccess(NewInvocation(c).result)
            /\ inspections'[sid].status = "completed"
            /\ InspectionFields(inspections'[sid]) =
                 << ev.arguments.value.equipment_id, ev.arguments.value.inspector_name,
                    ev.arguments.value.location, ev.arguments.value.inspection_result,
                    CommentsOrNull(ev.arguments.value) >>

C24_StatusIsCompletedIffSaved == []C24_StatusFollowsData /\ [][C24_RecordStep]_vars

\* A call ended before anything was saved and its record is in progress,
\* empty and not counted; ...
C24_WitnessInProgress ==
  \E sid \in DOMAIN inspections :
    /\ inspections[sid].completions = 1
    /\ inspections[sid].status = "in_progress"
    /\ getInspectionStats(inspections).total = 0

\* ... a call ended after a submission was saved and its record is
\* completed and counted.
C24_Witness ==
  \E sid \in DOMAIN inspections :
    /\ inspections[sid].completions = 1
    /\ inspections[sid].status = "completed"
    /\ inspections[sid].inspection_result = Str(FAIL)
    /\ getInspectionStats(inspections) = [total |-> 1, passed |-> 0, failed |-> 1]

(***************************************************************************)
(* C25.  On an interruption response.cancel and then                       *)
(* input_audio_buffer.clear are sent, and is_ai_speaking is cleared,       *)
(* before the frame that interrupted is forwarded: after a response.cancel *)
(* no input_audio_buffer.append is sent before the buffer clear.           *)
(***************************************************************************)
C25_ClearBeforeTheTriggeringAppend ==
  \A c \in Calls : \A k \in 1..Len(toAI[c]) : \A l \in (k + 1)..Len(toAI[c]) :
    IsCancel(toAI[c][k]) /\ IsAppend(toAI[c][l]) =>
      \E m \in (k + 1)..(l - 1) : IsClear(toAI[c][m])

\* What holds of it: the cancel is sent and the flag cleared before the
\* frame is forwarded, and the clear is sent later, by a timer.
C25_CancelStep ==
  \A c \in Calls :
    MediaReceived(c) /\ Interrupts(c) =>
      /\ \E p \in AudioPayloads :
           toAI'[c] = toAI[c] \o << ResponseCancel, InputAudioBufferAppend(p) >>
      /\ ~isAIResponding'[c]
      /\ PendingTimers(c, "bufferClear")' = PendingTimers(c, "bufferClear") + 1

C25_CancelThenAppendThenClear == [][C25_CancelStep]_vars

(***************************************************************************)
(* C26.  Every tool call that is not an accepted end_call, one that ends   *)
(* in an error result included, has its function_call_output sent first    *)
(* and then, after the settle delay, one response.create: the step that    *)
(* sends the output schedules exactly one response.create.                 *)
(***************************************************************************)
SendsOutput(c) ==
  /\ Len(toAI'[c]) = Len(toAI[c]) + 1
  /\ SubSeq(toAI'[c], 1, Len(toAI[c])) = toAI[c]
  /\ IsOutput(toAI'[c][Len(toAI'[c])])

C26_OutputStep ==
  \A c \in Calls :
    SendsOutput(c) /\ ~IsAcceptedEndCall(toAI'[c][Len(toAI'[c])]) =>
      /\ PendingTimers(c, "responseCreate")' = PendingTimers(c, "responseCreate") + 1
      /\ PendingTimers(c, "hangup")' = PendingTimers(c, "hangup")

C26_ResponseCreateAfterEveryResult == [][C26_OutputStep]_vars

\* What holds of it: the same for the results callMCPTool returns, and a
\* response.create is sent only by a timer a result or a greeting set.
C26_ReturnedStep ==
  \A c \in Calls :
    /\ SendsOutput(c) /\ ~IsAcceptedEndCall(toAI'[c][Len(toAI'[c])])
         /\ "error" \notin DOMAIN toAI'[c][Len(toAI'[c])].item.output
         => PendingTimers(c, "responseCreate")' = PendingTimers(c, "responseCreate") + 1
    /\ SendsOutput(c) \/ PendingTimers(c, "responseCreate")' > PendingTimers(c, "responseCreate")
         => Count(toAI'[c], LAMBDA m : m = ResponseCreate)
              = Count(toAI[c], LAMBDA m : m = ResponseCreate)

C26_ReturnedResultsAreFollowedUp == [][C26_ReturnedStep]_vars

(***************************************************************************)
(* C27.  A `clear' is sent on the media socket only after the output of an *)
(* accepted end_call and then the farewell response.create have been sent  *)
(* to the backend, and the media socket is closed by the orchestrator only *)
(* right after a clear.                                                    *)
(***************************************************************************)
IsClearEvent(m) == m.event = "clear"

ClearSent(c) == \E k \in 1..Len(toCaller[c]) : IsClearEvent(toCaller[c][k])

IsResponseCreate(m) == m = ResponseCreate

ClosedAfterClear(c) ==
  conn[c] = "CLOSING" =>
    Len(toCaller[c]) > 0 /\ IsClearEvent(toCaller[c][Len(toCaller[c])])

C27_ClearAfterFarewell ==
  \A c \in Calls :
    /\ ClearSent(c) =>
         /\ Sent(c, IsAcceptedEndCall)
         /\ ai[c] = "OPEN" => SentInOrder(c, IsAcceptedEndCall, IsResponseCreate)
    /\ ClosedAfterClear(c)

C27_HangUpStep ==
  \A c \in Calls :
    /\ \A i \in 1..Len(pending[c]) :
         Resumed(c, i, END_CALL) /\ IsSuccess(pending[c][i].result) =>
           /\ PendingTimers(c, "responseCreate")' = PendingTimers(c, "responseCreate") + 1
           /\ PendingTimers(c, "hangup")' = PendingTimers(c, "hangup") + 1
           /\ ai[c] = "OPEN" => IsAcceptedEndCall(toAI'[c][Len(toAI'[c])])
    /\ toCaller'[c] # toCaller[c] /\ IsClearEvent(toCaller'[c][Len(toCaller'[c])]) =>
         /\ conn[c] = "OPEN"
         /\ conn'[c] = "CLOSING"
         /\ PendingTimers(c, "hangup")' = PendingTimers(c, "hangup") - 1
         /\ toAI'[c] = toAI[c]
    /\ conn[c] = "OPEN" /\ conn'[c] = "CLOSING" =>
         /\ toCaller'[c] = Append(toCaller[c], ClearEvent(streamSid[c]))

C27_WitnessDropped ==
  \E c \in Calls :
    /\ ClearSent(c)
    /\ ai[c] = "CLOSED"
    /\ ~Sent(c, IsResponseCreate)

(***************************************************************************)
(* C28.  The greeting turn is sent to the backend only after               *)
(* session.update has been sent on that socket and after the start event   *)
(* has been received, in every interleaving of the backend's open, its     *)
(* session.created, the catalog fetch and the start event.                 *)
(***************************************************************************)
C28_GreetingAfterSessionUpdate ==
  \A c \in Calls : \A k \in 1..Len(toAI[c]) :
    IsGreeting(toAI[c][k]) =>
      /\ used[c].start > 0
      /\ \E j \in 1..(k - 1) : IsSessionUpdate(toAI[c][j])

\* What holds of it: the greeting is sent after the start event, by its
\* timer, to an open backend socket.
C28_GreetingStep ==
  \A c \in Calls :
    Count(toAI'[c], IsGreeting) > Count(toAI[c], IsGreeting) =>
      /\ used[c].start > 0
      /\ ai[c] = "OPEN"
      /\ PendingTimers(c, "greeting")' = PendingTimers(c, "greeting") - 1

C28_GreetingAfterStart == [][C28_GreetingStep]_vars

\* The greeting went out first and the session.update after it.
C28_GreetingSentFirst ==
  \E c \in Calls : SentInOrder(c, IsGreeting, IsSessionUpdate)

(***************************************************************************)
(* C29.  After the media socket has closed, no timer set earlier for the   *)
(* call (greeting or its retry, response.create, input_audio_buffer.clear, *)
(* hang-up) runs and sends an event on either socket.                      *)
(***************************************************************************)
C29_TimerStep ==
  \A c \in Calls : \A i \in 1..Len(timers[c]) :
    FireTimer(c, i) /\ conn[c] = "CLOSED" =>
      /\ toAI'[c] = toAI[c]
      /\ toCaller'[c] = toCaller[c]

C29_NoTimerSendsAfterClose == [][C29_TimerStep]_vars

\* What holds of it: nothing is sent on the media socket after it closed,
\* and nothing on a backend socket that was open when it closed.
C29_ClosedStep ==
  \A c \in Calls :
    conn[c] = "CLOSED" =>
      /\ toCaller'[c] = toCaller[c]
      /\ ai[c] # "OPEN" => toAI'[c] = toAI[c]

C29_ClosedSocketsStaySilent == [][C29_ClosedStep]_vars

(***************************************************************************)
(* C30.  The events of a call are handled as if one after the other: an    *)
(* end_call that arrives after a submission that succeeds is evaluated     *)
(* with the submission recorded, and is accepted, also when the two events *)
(* arrive back to back; no handler takes its snapshot of the call state    *)
(* while another handler of the call is about to update it.                *)
(***************************************************************************)
\* A handler of call c that has saved a submission and not yet recorded it.
AboutToRecord(c) ==
  \E i \in 1..Len(pending[c]) :
    /\ pending[c][i].kind = "tool"
    /\ pending[c][i].name = SUBMIT_INSPECTION_DATA
    /\ ~pending[c][i].threw
    /\ IsSuccess(pending[c][i].result)

C30_SerializedStep ==
  \A c \in Calls :
    /\ Dispatched(c, END_CALL) /\ (inspectionSubmitted[c] \/ AboutToRecord(c)) =>
         IsSuccess(NewInvocation(c).result)
    /\ \A ev \in limit.events : \A ioError \in BOOLEAN :
         DispatchToolCall(c, ev, ioError) => ~AboutToRecord(c)

C30_EventsAreSerialized == [][C30_SerializedStep]_vars

\* What holds of it: an end_call that arrives once the handler of the
\* submission has finished is accepted.
C30_RecordedStep ==
  \A c \in Calls :
    Dispatched(c, END_CALL) /\ inspectionSubmitted[c] =>
      IsSuccess(NewInvocation(c).result)

C30_EndCallAfterRecordedSubmission == [][C30_RecordedStep]_vars

\* A submission was accepted and the end_call that came right after it was
\* rejected for the missing submission.
C30_RejectedAfterAccepted ==
  \E c \in Calls :
    /\ SentInOrder(c, IsAcceptedSubmission, IsRejectedEndCall)
    /\ used[c].tool = 2

(***************************************************************************)
(* C31.  While a tool dispatch of a call waits for a provider's reply, a   *)
(* caller media frame and a backend audio delta of the call can be handled *)
(* at once, and are: the frame is appended to the backend's input, the     *)
(* delta is sent to the caller, a frame that finds the backend speaking    *)
(* cancels the response, and the dispatch is still waiting afterwards.     *)
(***************************************************************************)
C31_RelayIsNotBlocked ==
  \A c \in Calls :
    Waiting(c) /\ (\A d \in Calls : ~MicrotaskPending(d)) =>
      /\ Receiving(conn[c]) /\ used[c].media < limit.media =>
           \A p \in AudioPayloads : ENABLED OnMedia(c, p)
      /\ Receiving(ai[c]) /\ used[c].delta < limit.delta =>
           \A delta \in DeltaPayloads : ENABLED OnResponseAudioDelta(c, delta)

C31_RelayStep ==
  \A c \in Calls :
    /\ MediaReceived(c) /\ Waiting(c) =>
         /\ pending'[c] = pending[c]
         /\ ai[c] = "OPEN" =>
              /\ Len(toAI'[c]) > Len(toAI[c])
              /\ toAI'[c][Len(toAI'[c])] =
                   InputAudioBufferAppend(rxMedia'[c][Len(rxMedia'[c])].payload)
              /\ isAIResponding[c] =>
                   /\ toAI'[c][Len(toAI'[c]) - 1] = ResponseCancel
                   /\ ~isAIResponding'[c]
                   /\ PendingTimers(c, "bufferClear")' =
                        PendingTimers(c, "bufferClear") + 1
    /\ Len(rxDelta'[c]) = Len(rxDelta[c]) + 1 /\ Waiting(c) =>
         /\ pending'[c] = pending[c]
         /\ conn[c] = "OPEN" =>
              toCaller'[c] =
                Append(toCaller[c],
                       MediaEvent(streamSid[c], rxDelta'[c][Len(rxDelta'[c])].payload))

C31_RelayDuringDispatch == []C31_RelayIsNotBlocked /\ [][C31_RelayStep]_vars

\* A provider has not answered yet, and meanwhile the one frame of the
\* caller interrupted the backend and was forwarded, and a delta was relayed.
C31_Witness ==
  \E c \in Calls :
    /\ Waiting(c)
    /\ Len(rxMedia[c]) = 1
    /\ rxMedia[c][1].waiting /\ rxMedia[c][1].open
    /\ Sent(c, IsCancel)
    /\ Sent(c, IsAppend)
    /\ \E k \in 1..Len(rxDelta[c]) : rxDelta[c][k].waiting /\ rxDelta[c][k].open
    /\ Len(toCaller[c]) > 0

(***************************************************************************)
(* C32.  A malformed event on either socket (text that is not JSON, a      *)
(* media event without its payload, a start event without its stream id)   *)
(* is skipped: nothing is sent on either socket, no timer is set, the      *)
(* stream id, the caller identity, the speaking flag, the submission and   *)
(* the termination state stay as they were, and both sockets stay as they  *)
(* were.                                                                   *)
(***************************************************************************)
MalformedReceived(c) == used'[c].malformed = used[c].malformed + 1

C32_SkippedStep ==
  \A c \in Calls :
    MalformedReceived(c) =>
      /\ toAI'[c] = toAI[c]
      /\ toCaller'[c] = toCaller[c]
      /\ timers'[c] = timers[c]
      /\ streamSid'[c] = streamSid[c]
      /\ phoneNumber'[c] = phoneNumber[c]
      /\ returningCaller'[c] = returningCaller[c]
      /\ isAIResponding'[c] = isAIResponding[c]
      /\ inspectionSubmitted'[c] = inspectionSubmitted[c]
      /\ inspectionData'[c] = inspectionData[c]
      /\ terminationState'[c] = terminationState[c]
      /\ conn'[c] = conn[c]
      /\ ai'[c] = ai[c]

C32_MalformedEventsAreSkipped == [][C32_SkippedStep]_vars

\* What holds of it: no malformed event closes a socket, touches the
\* submission, the termination state or the tables, or sends anything to
\* the caller; text that is not JSON and a start event without `start'
\* change nothing at all.
C32_CallContinuesStep ==
  \A c \in Calls :
    /\ MalformedReceived(c) =>
         /\ conn'[c] = conn[c]
         /\ ai'[c] = ai[c]
         /\ toCaller'[c] = toCaller[c]
         /\ inspectionSubmitted'[c] = inspectionSubmitted[c]
         /\ inspectionData'[c] = inspectionData[c]
         /\ terminationState'[c] = terminationState[c]
         /\ inspections' = inspections
         /\ callers' = callers
    /\ \/ OnMalformedMedia(c, "text")
       \/ OnMalformedStart(c, "start", NULL)
       \/ OnMalformedBackendMessage(c)
       => /\ toAI'[c] = toAI[c]
          /\ timers'[c] = timers[c]
          /\ streamSid'[c] = streamSid[c]
          /\ phoneNumber'[c] = phoneNumber[c]
          /\ returningCaller'[c] = returningCaller[c]
          /\ isAIResponding'[c] = isAIResponding[c]

C32_MalformedEventsKeepTheCall == [][C32_CallContinuesStep]_vars

\* A media event without `media' found the backend speaking: the response
\* was cancelled and nothing was appended.
C32_CancelledByMalformedFrame ==
  \E c \in Calls :
    /\ Sent(c, IsCancel)
    /\ ~Sent(c, IsAppend)
    /\ used[c].media = 0

(***************************************************************************)
(* C33.  A caller media frame that arrives while isAIResponding is true    *)
(* makes the orchestrator send a `clear' event on the media socket, as the *)
(* hang-up does at the end of the call.                                    *)
(***************************************************************************)
C33_InterruptionStep ==
  \A c \in Calls :
    MediaReceived(c) /\ Interrupts(c) /\ conn[c] = "OPEN" =>
      /\ Len(toCaller'[c]) = Len(toCaller[c]) + 1
      /\ IsClearEvent(toCaller'[c][Len(toCaller'[c])])

C33_ClearOnInterruption == [][C33_InterruptionStep]_vars

\* What holds of it: a `clear' goes to the caller only from the hang-up
\* timer of an accepted end_call, and a media frame sends nothing to the
\* caller.
C33_CallEndStep ==
  \A c \in Calls :
    /\ Count(toCaller'[c], IsClearEvent) > Count(toCaller[c], IsClearEvent) =>
         /\ PendingTimers(c, "hangup")' = PendingTimers(c, "hangup") - 1
         /\ terminationState[c] = "ENDING"
         /\ conn'[c] = "CLOSING"
    /\ MediaReceived(c) => toCaller'[c] = toCaller[c]

C33_ClearOnlyAtCallEnd == [][C33_CallEndStep]_vars

\* The backend was interrupted and the buffer clear has followed; no timer
\* is left, the media socket is open, and the caller has been sent no clear.
C33_InterruptedWithoutClear ==
  \E c \in Calls :
    /\ SentInOrder(c, IsCancel, IsClear)
    /\ timers[c] = <<>>
    /\ conn[c] = "OPEN"
    /\ ~ClearSent(c)

(***************************************************************************)
(* C34.  Whenever inspectionSubmitted is true for a call, the inspections  *)
(* table has a row for the call's stream id that holds the payload         *)
(* recorded in inspectionData: no submission is reported successful, and   *)
(* the termination gate is never open, without the payload persisted.      *)
(***************************************************************************)
C34_SubmittedMeansPersisted ==
  \A c \in Calls : inspectionSubmitted[c] => Persisted(c, inspectionData[c])

RowHolds(row, data) ==
  /\ row.equipment_id = data.equipment_id
  /\ row.inspector_name = data.inspector_name
  /\ row.location = data.location
  /\ row.inspection_result = data.inspection_result
  /\ row.comments = CommentsOrNull(data)

\* What holds of it: a submission that is accepted when the start event
\* has created the row of the call is in that row when callMCPTool returns,
\* and one that is accepted before leaves the tables as they were.
C34_SaveStep ==
  \A c \in Calls :
    Dispatched(c, SUBMIT_INSPECTION_DATA) /\ ~NewInvocation(c).threw
      /\ IsSuccess(NewInvocation(c).result) =>
        IF streamSid[c] \in DOMAIN inspections
        THEN /\ RowHolds(inspections'[streamSid[c]], NewInvocation(c).parsedArgs)
             /\ inspections'[streamSid[c]].status = "completed"
        ELSE inspections' = inspections

C34_PersistedOnceStarted == [][C34_SaveStep]_vars

\* The gate was opened with no row in the table:
\* a submission and an end_call were accepted and the table is empty.
C34_AcceptedWithoutRecord ==
  \E c \in Calls :
    /\ inspectionSubmitted[c]
    /\ terminationState[c] = "ENDING"
    /\ DOMAIN inspections = {}

(***************************************************************************)
(* C35.  For every call the hang-up sends at most one `clear' to the       *)
(* caller and the orchestrator closes the media socket at most once, also  *)
(* when several end_calls were accepted and several hang-up timers run:    *)
(* a timer that finds the socket no longer open does nothing.              *)
(***************************************************************************)
C35_AtMostOneClear ==
  \A c \in Calls : Count(toCaller[c], IsClearEvent) <= 1

C35_CloseStep ==
  \A c \in Calls :
    /\ conn[c] # "OPEN" => conn'[c] # "OPEN"
    /\ conn[c] = "OPEN" /\ conn'[c] = "CLOSING" => ~ClearSent(c)
    /\ \A i \in 1..Len(timers[c]) :
         FireTimer(c, i) /\ timers[c][i].kind = "hangup" /\ conn[c] # "OPEN" =>
           /\ toCaller'[c] = toCaller[c]
           /\ conn'[c] = conn[c]

C35_HangUpHappensOnce == []C35_AtMostOneClear /\ [][C35_CloseStep]_vars

\* Two end_calls were accepted, both hang-up timers have run, and the
\* caller was sent one clear.
C35_Witness ==
  \E c \in Calls :
    /\ Count(toAI[c], IsAcceptedEndCall) = 2
    /\ PendingTimers(c, "hangup") = 0
    /\ Count(toCaller[c], IsClearEvent) = 1
    /\ conn[c] = "CLOSING"

(***************************************************************************)
(* C36.  Between two consecutive response.audio.start events of a call at  *)
(* most one response.cancel and at most one input_audio_buffer.clear are   *)
(* sent to the backend, however many caller media frames arrive: every     *)
(* cancel uses up one start, every clear belongs to one cancel, and a      *)
(* media frame that finds isAIResponding false sends its                   *)
(* input_audio_buffer.append and nothing else.                             *)
(***************************************************************************)
C36_OneCancelPerStart ==
  \A c \in Calls :
    /\ Count(toAI[c], IsCancel) + (IF isAIResponding[c] THEN 1 ELSE 0)
         <= used[c].speech
    /\ Count(toAI[c], IsClear) + PendingTimers(c, "bufferClear")
         <= Count(toAI[c], IsCancel)

C36_CancelStep ==
  \A c \in Calls :
    /\ toAI'[c] # toAI[c] /\ Count(toAI'[c], IsCancel) # Count(toAI[c], IsCancel) =>
         /\ Count(toAI'[c], IsCancel) = Count(toAI[c], IsCancel) + 1
         /\ isAIResponding[c]
         /\ ~isAIResponding'[c]
    /\ ~isAIResponding[c] /\ isAIResponding'[c] =>
         used'[c].speech = used[c].speech + 1
    /\ MediaReceived(c) /\ ~isAIResponding[c] =>
         /\ timers'[c] = timers[c]
         /\ toAI'[c] =
              IF ai[c] = "OPEN"
              THEN Append(toAI[c],
                          InputAudioBufferAppend(rxMedia'[c][Len(rxMedia'[c])].payload))
              ELSE toAI[c]

C37_AtMostOneGreeting ==
  \A c \in Calls : Count(toAI[c], IsGreeting) <= 1

\* What holds of it: every start event starts one chain of greeting timers,
\* and a chain sends one greeting, however often it is retried; the
\* greeting sets one response.create timer.
C37_GreetingsAndStarts ==
  \A c \in Calls :
    Count(toAI[c], IsGreeting) + PendingTimers(c, "greeting") = used[c].start

C37_RetryStep ==
  \A c \in Calls : \A i \in 1..Len(timers[c]) :
    FireTimer(c, i) /\ timers[c][i].kind = "greeting" =>
      IF ai[c] = "OPEN"
      THEN /\ Count(toAI'[c], IsGreeting) = Count(toAI[c], IsGreeting) + 1
           /\ PendingTimers(c, "responseCreate")' = PendingTimers(c, "responseCreate") + 1
           /\ PendingTimers(c, "greeting")' = PendingTimers(c, "greeting") - 1
      ELSE /\ toAI'[c] = toAI[c]
           /\ PendingTimers(c, "greeting")' = PendingTimers(c, "greeting")

C37_OneGreetingPerStart == []C37_GreetingsAndStarts /\ [][C37_RetryStep]_vars

\* Two start events, two greetings.
C37_GreetedTwice ==
  \E c \in Calls : used[c].start = 2 /\ Count(toAI[c], IsGreeting) = 2

(***************************************************************************)
(* C38.  The greeting retry ends: a greeting timer that runs once the call *)
(* is over (the backend socket has closed or failed to open, or the media  *)
(* socket has closed) sets no further timer, so no timer of a call is left *)
(* to run for ever after the call has ended.                               *)
(***************************************************************************)
CallIsOver(c) == ai[c] = "CLOSED" \/ conn[c] = "CLOSED"

C38_RetryStep ==
  \A c \in Calls : \A i \in 1..Len(timers[c]) :
    FireTimer(c, i) /\ timers[c][i].kind = "greeting" /\ CallIsOver(c) =>
      /\ PendingTimers(c, "greeting")' = PendingTimers(c, "greeting") - 1
      /\ Len(timers'[c]) < Len(timers[c])

C38_GreetingRetryEnds == [][C38_RetryStep]_vars

\* What holds of it: the retry ends when it finds the backend socket open,
\* and only then; every other timer ends when it runs.
C38_TimerStep ==
  \A c \in Calls : \A i \in 1..Len(timers[c]) :
    FireTimer(c, i) =>
      IF timers[c][i].kind = "greeting"
      THEN PendingTimers(c, "greeting")' =
             PendingTimers(c, "greeting") - (IF ai[c] = "OPEN" THEN 1 ELSE 0)
      ELSE Count(timers'[c], LAMBDA t : t.kind = timers[c][i].kind) =
             PendingTimers(c, timers[c][i].kind) - 1

C38_RetryEndsIfBackendOpen == [][C38_TimerStep]_vars

\* Both sockets have closed, nothing else is left to do, and the greeting
\* timer is still there: it runs every GREETING_RETRY_DELAY_MS from now on.
C38_RetryForEver ==
  \E c \in Calls :
    /\ ai[c] = "CLOSED"
    /\ conn[c] = "CLOSED"
    /\ pending[c] = <<>>
    /\ timers[c] = << Timer("greeting", GREETING_RETRY_DELAY_MS) >>
    /\ ~Sent(c, IsGreeting)

(***************************************************************************)
(* C39.  Once the media socket has left OPEN, by the hang-up or by the     *)
(* caller's disconnecting, nothing more is sent on it: a backend           *)
(* response.audio.delta that arrives afterwards, while the backend socket  *)
(* is still receiving, is handled and not relayed to the caller.           *)
(***************************************************************************)
DeltaReceived(c) == Len(rxDelta'[c]) = Len(rxDelta[c]) + 1

C39_AfterCloseStep ==
  \A c \in Calls :
    /\ conn[c] # "OPEN" => toCaller'[c] = toCaller[c]
    /\ DeltaReceived(c) =>
         /\ Receiving(ai[c])
         /\ rxDelta'[c][Len(rxDelta'[c])].open = (conn[c] = "OPEN")
         /\ Len(toCaller'[c]) = Len(toCaller[c]) + (IF conn[c] = "OPEN" THEN 1 ELSE 0)

\* The last event on a media socket that the hang-up closed is its clear.
C39_ClearIsLast ==
  \A c \in Calls :
    ClearSent(c) => IsClearEvent(toCaller[c][Len(toCaller[c])])

C39_WitnessDisconnected ==
  \E c \in Calls :
    /\ conn[c] = "CLOSED"
    /\ ~ClearSent(c)
    /\ \E k \in 1..Len(rxDelta[c]) : ~rxDelta[c][k].open
    /\ toCaller[c] = <<>>

=============================================================================
